---------------------------- MODULE Spec2Model ----------------------------
(***************************************************************************)
(* Library management system: the data-access layer (src/models.py) and    *)
(* the request handlers that call it (src/app.py), over one SQLite file.    *)
(*                                                                          *)
(* The store is the record db: six tables, each a function from the ids of *)
(* its rows to the row, and the AUTOINCREMENT counters.  Every SQL          *)
(* statement of models.py is an operator from a store to a statement        *)
(* result; a core function is the sequence of its statements inside one     *)
(* transaction.  Foreign keys are enforced (get_conn switches them on), so  *)
(* a statement that would leave a dangling reference fails with             *)
(* IntegrityError and changes nothing.                                      *)
(*                                                                          *)
(* Columns that no statement ever reads back into a decision (added_date,   *)
(* joined_date, phone, loan_date, due_date) are left out of the rows.       *)
(***************************************************************************)
EXTENDS Integers, Sequences, FiniteSets, TLC

\* ------------------------------------------------------------------ bounds
MaxBooks      == 2   \* book rows ever inserted
MaxBorrowers  == 2   \* borrower rows ever inserted
MaxLoans      == 2   \* loan rows ever inserted
MaxCategories == 1   \* category rows ever inserted
MaxNamed      == 1   \* author rows / publisher rows ever inserted
MaxQty        == 1   \* largest quantity a caller passes
MaxTime       == 1   \* last instant of the clock
NProcs        == 2   \* concurrent request workers
MaxSurplus    == 1   \* returns counted beyond a book's loans (caps available)
RefBooks     == 1   \* book rows ever inserted in SpecRefs, SpecGuards, SpecRetry, SpecCache
RefBorrowers == 1   \* borrower rows ever inserted there
RefLoans     == 1   \* loan rows ever inserted there
MaxAge       == 6   \* last instant of the clock where cache entries age (SpecCache)
MaxUnique    == 2   \* category rows ever inserted in SpecUnique
MaxSeedIds   == 10  \* category ids ever issued in SpecSeed

\* ------------------------------------------------------- values and domains
NULL    == 0         \* SQL NULL / Python None in an integer column (ids start at 1)
NoDate  == -1        \* return_date IS NULL
NONE    == "None"    \* SQL NULL / Python None in a text column
LEAKED  == -1        \* lock owner: a connection nobody holds any more

BookArgs     == 1..MaxBooks
BorrowerArgs == 1..MaxBorrowers
LoanArgs     == 1..MaxLoans
CategoryArgs == 1..MaxCategories
NamedArgs    == 1..MaxNamed
Procs        == 1..NProcs

Title1        == <<"t">>
CategoryNames == {"Fiction"}
PersonNames   == {"A"}

VARIABLES
  db,      \* the committed content of library.db
  lock,    \* SQLite's write lock: 0 free, p held by worker p, LEAKED
  wdb,     \* the lock holder's uncommitted view of the store
  cache,   \* models._CACHE: key -> [value, ts]
  now,     \* the clock (time.time(), datetime.utcnow())
  last,    \* the outcome of the last core call made directly (no worker)
  procs    \* the request workers: position and locals of each

vars == <<db, lock, wdb, cache, now, last, procs>>

\* ------------------------------------------------------------ small helpers
Put(f, k, v) == [x \in (DOMAIN f) \cup {k} |-> IF x = k THEN v ELSE f[x]]

Drop(f, k) == [x \in (DOMAIN f) \ {k} |-> f[x]]

Empty == [x \in {} |-> 0]

\* init_db: the six tables, empty; sqlite_sequence holds no row yet
EmptyDb ==
  [categories |-> Empty, authors |-> Empty, publishers |-> Empty,
   books |-> Empty, borrowers |-> Empty, loans |-> Empty,
   seq |-> [categories |-> 0, authors |-> 0, publishers |-> 0,
            books |-> 0, borrowers |-> 0, loans |-> 0]]

\* a statement's result: it ran, or it raised and changed nothing
Ran(d)    == [err |-> "ok", db |-> d]

Raised(e, d) == [err |-> e, db |-> d]

\* ------------------------------------------------------------- guard reads
\* SELECT COUNT(*) FROM loans WHERE book_id = ? AND status = 'active'
ActiveLoansOfBook(d, b) ==
  Cardinality({l \in DOMAIN d.loans :
                 d.loans[l].book_id = b /\ d.loans[l].status = "active"})

get_loans_count_for_book(d, b) ==
  Cardinality({l \in DOMAIN d.loans : d.loans[l].book_id = b})

get_loans_count_for_borrower(d, r) ==
  Cardinality({l \in DOMAIN d.loans : d.loans[l].borrower_id = r})

\* the count without its status test
ActiveCountIgnoresStatus(d, r) ==
  Cardinality({l \in DOMAIN d.loans : d.loans[l].borrower_id = r})

get_active_loans_count_for_borrower(d, r) ==
  Cardinality({l \in DOMAIN d.loans :
                 d.loans[l].borrower_id = r /\ d.loans[l].status = "active"})

\* ------------------------------------------------------------ SQL statements
\* the insert with foreign keys off
InsertLoanUnchecked(d, b, r) ==
  [err |-> "ok",
   db |-> [d EXCEPT !.loans = Put(@, d.seq.loans + 1,
                                   [book_id |-> b, borrower_id |-> r,
                                    status |-> "active", return_date |-> NoDate]),
                    !.seq.loans = d.seq.loans + 1]]

\* INSERT INTO loans (book_id, borrower_id, ..., status) VALUES (?, ?, ..., 'active')
SqlInsertLoan(d, b, r) ==
  IF b \notin DOMAIN d.books \/ r \notin DOMAIN d.borrowers
  THEN Raised("IntegrityError", d)
  ELSE LET id == d.seq.loans + 1 IN
       Ran([d EXCEPT !.loans = Put(@, id, [book_id |-> b, borrower_id |-> r,
                                           status |-> "active", return_date |-> NoDate]),
                     !.seq.loans = id])

\* an UPDATE books SET available = available + delta with its WHERE clause
\* left out: every book row is adjusted
AdjustEveryBook(d, b, delta) ==
  Ran([d EXCEPT !.books = [x \in DOMAIN @ |-> [@[x] EXCEPT !.available = @ + delta]]])

\* UPDATE books SET available = available + delta WHERE id = ?
SqlAdjustAvailable(d, b, delta) ==
  IF b \in DOMAIN d.books
  THEN Ran([d EXCEPT !.books[b].available = @ + delta])
  ELSE Ran(d)

\* a return that flips the status instead of setting it
MarkReturnedToggles(d, l, date) ==
  IF l \in DOMAIN d.loans
  THEN [err |-> "ok",
        db |-> [d EXCEPT !.loans[l].status = IF @ = "active" THEN "returned" ELSE "active",
                         !.loans[l].return_date = date]]
  ELSE [err |-> "ok", db |-> d]

\* UPDATE loans SET status = 'returned', return_date = ? WHERE id = ?
SqlMarkReturned(d, l, date) ==
  IF l \in DOMAIN d.loans
  THEN Ran([d EXCEPT !.loans[l].status = "returned", !.loans[l].return_date = date])
  ELSE Ran(d)

\* the insert into a table whose isbn column is not UNIQUE
InsertBookAnyIsbn(d, title, isbn, cat, an, pn, q) ==
  IF cat # NULL /\ cat \notin DOMAIN d.categories
  THEN Raised("IntegrityError", d)
  ELSE
  LET id == d.seq.books + 1 IN
  Ran([d EXCEPT !.books = Put(@, id, [title |-> title, isbn |-> isbn,
                                      category_id |-> cat, author_name |-> an,
                                      publisher_name |-> pn, quantity |-> q,
                                      available |-> q]),
                !.seq.books = id])

\* INSERT INTO books (...) VALUES (..., quantity, quantity)
SqlInsertBook(d, title, isbn, cat, an, pn, q) ==
  IF cat # NULL /\ cat \notin DOMAIN d.categories
  THEN Raised("IntegrityError", d)
  ELSE IF isbn # NONE /\ \E x \in DOMAIN d.books : d.books[x].isbn = isbn
  THEN Raised("IntegrityError", d)
  ELSE LET id == d.seq.books + 1 IN
       Ran([d EXCEPT !.books = Put(@, id, [title |-> title, isbn |-> isbn,
                                           category_id |-> cat, author_name |-> an,
                                           publisher_name |-> pn, quantity |-> q,
                                           available |-> q]),
                     !.seq.books = id])

\* UPDATE books SET title = ?, ..., quantity = ?, available = ? WHERE id = ?
SqlUpdateBook(d, b, title, isbn, cat, an, pn, q, avail) ==
  IF b \notin DOMAIN d.books THEN Ran(d)
  ELSE IF cat # NULL /\ cat \notin DOMAIN d.categories
  THEN Raised("IntegrityError", d)
  ELSE IF isbn # NONE /\ \E x \in (DOMAIN d.books) \ {b} : d.books[x].isbn = isbn
  THEN Raised("IntegrityError", d)
  ELSE Ran([d EXCEPT !.books[b] = [title |-> title, isbn |-> isbn, category_id |-> cat,
                                   author_name |-> an, publisher_name |-> pn,
                                   quantity |-> q, available |-> avail]])

\* a delete under ON DELETE CASCADE: the book's loans go with it
DeleteBookCascades(d, b) ==
  Ran([d EXCEPT !.books = Drop(@, b),
                !.loans = [l \in {x \in DOMAIN @ : @[x].book_id # b} |-> @[l]]])

\* a delete that only the book's active loans stand against
DeleteBookIfReturned(d, b) ==
  IF \E l \in DOMAIN d.loans : d.loans[l].book_id = b /\ d.loans[l].status = "active"
  THEN Raised("IntegrityError", d)
  ELSE Ran([d EXCEPT !.books = Drop(@, b)])

\* DELETE FROM books WHERE id = ?   (loans.book_id REFERENCES books(id))
SqlDeleteBook(d, b) ==
  IF \E l \in DOMAIN d.loans : d.loans[l].book_id = b
  THEN Raised("IntegrityError", d)
  ELSE Ran([d EXCEPT !.books = Drop(@, b)])

\* INSERT INTO borrowers (name, email, phone) VALUES (?, ?, ?)
SqlInsertBorrower(d, name, email) ==
  IF email # NONE /\ \E x \in DOMAIN d.borrowers : d.borrowers[x].email = email
  THEN Raised("IntegrityError", d)
  ELSE LET id == d.seq.borrowers + 1 IN
       Ran([d EXCEPT !.borrowers = Put(@, id, [name |-> name, email |-> email]),
                     !.seq.borrowers = id])

\* UPDATE borrowers SET name = ?, email = ?, phone = ? WHERE id = ?
SqlUpdateBorrower(d, r, name, email) ==
  IF r \notin DOMAIN d.borrowers THEN Ran(d)
  ELSE IF email # NONE /\ \E x \in (DOMAIN d.borrowers) \ {r} : d.borrowers[x].email = email
  THEN Raised("IntegrityError", d)
  ELSE Ran([d EXCEPT !.borrowers[r] = [name |-> name, email |-> email]])

\* the delete with foreign keys off
DeleteBorrowerUnchecked(d, r) == [err |-> "ok", db |-> [d EXCEPT !.borrowers = Drop(@, r)]]

\* DELETE FROM borrowers WHERE id = ?   (loans.borrower_id REFERENCES borrowers(id))
SqlDeleteBorrower(d, r) ==
  IF \E l \in DOMAIN d.loans : d.loans[l].borrower_id = r
  THEN Raised("IntegrityError", d)
  ELSE Ran([d EXCEPT !.borrowers = Drop(@, r)])

\* INSERT INTO categories (name) VALUES (?)   (name TEXT NOT NULL UNIQUE)
SqlInsertCategory(d, name) ==
  IF name = NONE \/ \E x \in DOMAIN d.categories : d.categories[x] = name
  THEN Raised("IntegrityError", d)
  ELSE LET id == d.seq.categories + 1 IN
       Ran([d EXCEPT !.categories = Put(@, id, name), !.seq.categories = id])

\* UPDATE categories SET name = ? WHERE id = ?
SqlUpdateCategory(d, c, name) ==
  IF c \notin DOMAIN d.categories THEN Ran(d)
  ELSE IF name = NONE \/ \E x \in (DOMAIN d.categories) \ {c} : d.categories[x] = name
  THEN Raised("IntegrityError", d)
  ELSE Ran([d EXCEPT !.categories[c] = name])

\* DELETE FROM categories WHERE id = ?   (books.category_id REFERENCES categories(id))
SqlDeleteCategory(d, c) ==
  IF \E b \in DOMAIN d.books : d.books[b].category_id = c
  THEN Raised("IntegrityError", d)
  ELSE Ran([d EXCEPT !.categories = Drop(@, c)])

\* INSERT INTO authors (name) VALUES (?)   (name TEXT NOT NULL, not unique)
SqlInsertAuthor(d, name) ==
  IF name = NONE THEN Raised("IntegrityError", d)
  ELSE LET id == d.seq.authors + 1 IN
       Ran([d EXCEPT !.authors = Put(@, id, name), !.seq.authors = id])

\* a delete that also blanks the author_name of the books carrying the name
DeleteAuthorClearsBooks(d, a) ==
  Ran([d EXCEPT !.authors = Drop(@, a),
                !.books = [b \in DOMAIN @ |->
                             IF a \in DOMAIN d.authors /\ @[b].author_name = d.authors[a]
                             THEN [@[b] EXCEPT !.author_name = NONE] ELSE @[b]]])

\* DELETE FROM authors WHERE id = ?   (no table references authors)
SqlDeleteAuthor(d, a) == Ran([d EXCEPT !.authors = Drop(@, a)])

\* INSERT INTO publishers (name) VALUES (?)
SqlInsertPublisher(d, name) ==
  IF name = NONE THEN Raised("IntegrityError", d)
  ELSE LET id == d.seq.publishers + 1 IN
       Ran([d EXCEPT !.publishers = Put(@, id, name), !.seq.publishers = id])

\* DELETE FROM publishers WHERE id = ?   (no table references publishers)
SqlDeletePublisher(d, p) == Ran([d EXCEPT !.publishers = Drop(@, p)])


\* ------------------------------------------------------------------- cache
CACHE_TTL == 5   \* _CACHE_TTL, seconds

BooksPrefix == <<"b","o","o","k","s">>

BorrowersPrefix == <<"b","o","r","r","o","w","e","r","s">>

BorrowersKey == BorrowersPrefix \o <<":","a","l","l">>

\* str(n) for a non-negative integer
RECURSIVE Str(_)
Str(n) ==
  LET digit == <<"0","1","2","3","4","5","6","7","8","9">>[(n % 10) + 1] IN
  IF n < 10 THEN <<digit>> ELSE Str(n \div 10) \o <<digit>>

\* a match of the whole key only
SameKey(k, prefix) == k = prefix

\* k.startswith(prefix)
StartsWith(k, prefix) ==
  Len(k) >= Len(prefix) /\ SubSeq(k, 1, Len(prefix)) = prefix

\* a lookup that takes an entry of age exactly _CACHE_TTL for stale
CacheGetStrict(c, key, t) ==
  IF key \notin DOMAIN c THEN [hit |-> FALSE, value |-> {}, cache |-> c]
  ELSE IF t - c[key].ts >= CACHE_TTL THEN [hit |-> FALSE, value |-> {}, cache |-> Drop(c, key)]
  ELSE [hit |-> TRUE, value |-> c[key].value, cache |-> c]

\* _cache_get: the value of a fresh entry; an entry past its TTL is popped
cache_get(c, key, t) ==
  IF key \notin DOMAIN c THEN [hit |-> FALSE, value |-> {}, cache |-> c]
  ELSE IF t - c[key].ts > CACHE_TTL THEN [hit |-> FALSE, value |-> {}, cache |-> Drop(c, key)]
  ELSE [hit |-> TRUE, value |-> c[key].value, cache |-> c]

cache_set(c, key, value, t) == Put(c, key, [value |-> value, ts |-> t])

\* an invalidation that empties the whole cache
ClearWhole(c, prefix) == Empty

\* an invalidation that removes nothing
ClearNothing(c, prefix) == c

\* _cache_clear(prefix)
cache_clear(c, prefix) ==
  [k \in {x \in DOMAIN c : ~StartsWith(x, prefix)} |-> c[k]]

RECURSIVE ClearAll(_, _)
ClearAll(c, prefixes) ==
  IF prefixes = <<>> THEN c
  ELSE ClearAll(cache_clear(c, Head(prefixes)), Tail(prefixes))

\* f"books:{search}:{category_filter}"; the filter '' is NULL here
BooksKey(search, filter) ==
  BooksPrefix \o <<":">> \o search \o <<":">>
    \o (IF filter = NULL THEN <<>> ELSE Str(filter))

\* title LIKE '%search%'
Contains(title, search) ==
  \E i \in 1..(Len(title) + 1) :
     i + Len(search) - 1 <= Len(title)
     /\ SubSeq(title, i, i + Len(search) - 1) = search

\* SELECT b.*, c.name AS category_name FROM books b LEFT JOIN categories c ...
BookRow(d, b) ==
  [id |-> b, title |-> d.books[b].title, isbn |-> d.books[b].isbn,
   category_id |-> d.books[b].category_id,
   author_name |-> d.books[b].author_name,
   publisher_name |-> d.books[b].publisher_name,
   quantity |-> d.books[b].quantity, available |-> d.books[b].available,
   category_name |-> IF d.books[b].category_id \in DOMAIN d.categories
                     THEN d.categories[d.books[b].category_id] ELSE NONE]

\* the query of get_all_books; the rows as a set (their order by title is not modelled)
QueryBooks(d, search, filter) ==
  {BookRow(d, b) : b \in {x \in DOMAIN d.books :
      /\ (search = <<>> \/ Contains(d.books[x].title, search))
      /\ (filter = NULL \/ d.books[x].category_id = filter)}}

\* get_all_books(search, category_filter): [value, cache]
get_all_books(d, c, search, filter, t) ==
  LET key == BooksKey(search, filter)
      got == cache_get(c, key, t)
  IN IF got.hit THEN [value |-> got.value, cache |-> got.cache]
     ELSE LET rows == QueryBooks(d, search, filter)
          IN [value |-> rows, cache |-> cache_set(got.cache, key, rows, t)]

\* SELECT b.*, COUNT(CASE WHEN l.status = 'active' ...) AS active_loans,
\* COUNT(l.id) AS total_loans FROM borrowers b LEFT JOIN loans l ... GROUP BY b.id
BorrowerRow(d, r) ==
  [id |-> r, name |-> d.borrowers[r].name, email |-> d.borrowers[r].email,
   active_loans |-> get_active_loans_count_for_borrower(d, r),
   total_loans |-> get_loans_count_for_borrower(d, r)]

QueryBorrowers(d) == {BorrowerRow(d, r) : r \in DOMAIN d.borrowers}

\* get_all_borrowers(): [value, cache]
get_all_borrowers(d, c, t) ==
  LET got == cache_get(c, BorrowersKey, t)
  IN IF got.hit THEN [value |-> got.value, cache |-> got.cache]
     ELSE LET rows == QueryBorrowers(d)
          IN [value |-> rows, cache |-> cache_set(got.cache, BorrowersKey, rows, t)]

\* get_book_by_id / get_borrower_by_id / ...: the row, or None
get_book_by_id(d, b) == IF b \in DOMAIN d.books THEN {BookRow(d, b)} ELSE {}

get_borrower_by_id(d, r) == IF r \in DOMAIN d.borrowers THEN {d.borrowers[r]} ELSE {}

\* -------------------------------------------------------------- core calls
\* The outcome of one call of a core function on store d under write lock lk:
\* err (ok or the exception raised), ret (the value returned), db (the store
\* once the call is over) and open (the call raised inside its write
\* transaction and never closed its connection).
\*
\* retry_db: a write that finds the lock held gets "database is locked"; with
\* the holder gone for good every attempt ends so and the last one is raised.
\* a busy failure that had already written its loan row
BusyKeepsInsert(d) ==
  [err |-> "OperationalError", ret |-> 0, db |-> InsertLoanUnchecked(d, 1, 1).db,
   open |-> FALSE]

Busy(d) == [err |-> "OperationalError", ret |-> 0, db |-> d, open |-> FALSE]

Commit(r, ret, d) ==
  IF r.err = "ok" THEN [err |-> "ok", ret |-> ret, db |-> r.db, open |-> FALSE]
  ELSE [err |-> r.err, ret |-> 0, db |-> d, open |-> TRUE]

add_loan_call(d, lk, b, r) ==
  IF lk # 0 THEN Busy(d)
  ELSE LET r1 == SqlInsertLoan(d, b, r) IN
       IF r1.err # "ok" THEN Commit(r1, 0, d)
       ELSE Commit(SqlAdjustAvailable(r1.db, b, -1), r1.db.seq.loans, d)

return_loan_call(d, lk, l, t) ==
  IF l \notin DOMAIN d.loans
  THEN [err |-> "TypeError", ret |-> 0, db |-> d, open |-> FALSE]
  ELSE IF lk # 0 THEN Busy(d)
  ELSE LET r1 == SqlMarkReturned(d, l, t) IN
       Commit(SqlAdjustAvailable(r1.db, d.loans[l].book_id, 1), 0, d)

add_book_call(d, lk, title, isbn, cat, an, pn, q) ==
  IF lk # 0 THEN Busy(d)
  ELSE Commit(SqlInsertBook(d, title, isbn, cat, an, pn, q), d.seq.books + 1, d)

\* an update that raises and rolls back when the quantity is below the
\* active loans
UpdateBookRollsBack(d, lk, b, title, isbn, cat, an, pn, q) ==
  LET active_loans == ActiveLoansOfBook(d, b) IN
  IF lk # 0 THEN Busy(d)
  ELSE IF q < active_loans
  THEN [err |-> "ValueError", ret |-> 0, db |-> d, open |-> TRUE]
  ELSE Commit(SqlUpdateBook(d, b, title, isbn, cat, an, pn, q, q - active_loans),
              active_loans, d)

update_book_call(d, lk, b, title, isbn, cat, an, pn, q) ==
  LET active_loans == ActiveLoansOfBook(d, b) IN
  IF lk # 0 THEN Busy(d)
  ELSE Commit(SqlUpdateBook(d, b, title, isbn, cat, an, pn, q, q - active_loans),
              active_loans, d)

delete_book_call(d, lk, b) ==
  IF lk # 0 THEN Busy(d) ELSE Commit(SqlDeleteBook(d, b), 0, d)

add_borrower_call(d, lk, name, email) ==
  IF lk # 0 THEN Busy(d)
  ELSE Commit(SqlInsertBorrower(d, name, email), d.seq.borrowers + 1, d)

update_borrower_call(d, lk, r, name, email) ==
  IF lk # 0 THEN Busy(d) ELSE Commit(SqlUpdateBorrower(d, r, name, email), 0, d)

delete_borrower_call(d, lk, r) ==
  IF lk # 0 THEN Busy(d) ELSE Commit(SqlDeleteBorrower(d, r), 0, d)

add_category_call(d, lk, name) ==
  IF lk # 0 THEN Busy(d)
  ELSE Commit(SqlInsertCategory(d, name), d.seq.categories + 1, d)

update_category_call(d, lk, c, name) ==
  IF lk # 0 THEN Busy(d) ELSE Commit(SqlUpdateCategory(d, c, name), 0, d)

delete_category_call(d, lk, c) ==
  IF lk # 0 THEN Busy(d) ELSE Commit(SqlDeleteCategory(d, c), 0, d)

add_author_call(d, lk, name) ==
  IF lk # 0 THEN Busy(d)
  ELSE Commit(SqlInsertAuthor(d, name), d.seq.authors + 1, d)

delete_author_call(d, lk, a) ==
  IF lk # 0 THEN Busy(d) ELSE Commit(SqlDeleteAuthor(d, a), 0, d)

add_publisher_call(d, lk, name) ==
  IF lk # 0 THEN Busy(d)
  ELSE Commit(SqlInsertPublisher(d, name), d.seq.publishers + 1, d)

delete_publisher_call(d, lk, p) ==
  IF lk # 0 THEN Busy(d) ELSE Commit(SqlDeletePublisher(d, p), 0, d)

\* ------------------------------------------- core calls made one at a time
\* a worker between requests; op is the route it serves, a and b the route's
\* ids, seen what its last read returned, res how the request ended
\* attempt and delay are retry_db's loop variables, err and ret what the
\* wrapped call raised or returned
Idle == [op |-> "none", pc |-> "idle", a |-> 0, b |-> 0, seen |-> 0,
         name |-> NONE, name2 |-> NONE, res |-> "none",
         attempt |-> 0, delay |-> 0, err |-> "none", ret |-> 0]

Init ==
  /\ db = EmptyDb
  /\ lock = 0
  /\ wdb = EmptyDb
  /\ cache = Empty
  /\ now = 0
  /\ last = [op |-> "init", a |-> 0, b |-> 0, err |-> "ok", ret |-> 0]
  /\ procs = [p \in Procs |-> Idle]

\* One direct call: out is its outcome, prefixes the cache prefixes it clears
\* after its commit.  A call that raised inside its transaction leaves its
\* connection to the garbage collector: closed at once (reference count) or
\* kept, with the write lock, until a collection.
Called(op, a, b, out, prefixes) ==
  /\ db' = out.db
  /\ lock' \in (IF out.open THEN {0, LEAKED} ELSE {lock})
  /\ cache' = IF out.err = "ok" THEN ClearAll(cache, prefixes) ELSE cache
  /\ last' = [op |-> op, a |-> a, b |-> b, err |-> out.err, ret |-> out.ret]
  /\ UNCHANGED <<wdb, now, procs>>

add_book(title, isbn, cat, an, pn, q) ==
  /\ db.seq.books < MaxBooks
  /\ Called("add_book", cat, q, add_book_call(db, lock, title, isbn, cat, an, pn, q),
            <<BooksPrefix>>)

update_book(b, title, isbn, cat, an, pn, q) ==
  Called("update_book", b, q, update_book_call(db, lock, b, title, isbn, cat, an, pn, q),
         <<BooksPrefix>>)

delete_book(b) ==
  Called("delete_book", b, 0, delete_book_call(db, lock, b), <<BooksPrefix>>)

add_borrower(name, email) ==
  /\ db.seq.borrowers < MaxBorrowers
  /\ Called("add_borrower", 0, 0, add_borrower_call(db, lock, name, email),
            <<BorrowersPrefix>>)

update_borrower(r, name, email) ==
  Called("update_borrower", r, 0, update_borrower_call(db, lock, r, name, email),
         <<BorrowersPrefix>>)

delete_borrower(r) ==
  Called("delete_borrower", r, 0, delete_borrower_call(db, lock, r), <<BorrowersPrefix>>)

add_loan(b, r) ==
  /\ db.seq.loans < MaxLoans
  /\ Called("add_loan", b, r, add_loan_call(db, lock, b, r),
            <<BooksPrefix, BorrowersPrefix>>)

\* available - (quantity - active loans): the returns counted twice
Surplus(d, b) == d.books[b].available - (d.books[b].quantity - ActiveLoansOfBook(d, b))

\* the model stops counting a book's returns at MaxSurplus extra ones
ReturnBounded(d, l) ==
  l \in DOMAIN d.loans =>
     (d.loans[l].status = "active" \/ Surplus(d, d.loans[l].book_id) < MaxSurplus)

return_loan(l) ==
  /\ ReturnBounded(db, l)
  /\ Called("return_loan", l, 0, return_loan_call(db, lock, l, now),
         <<BooksPrefix, BorrowersPrefix>>)

add_category(name) ==
  /\ db.seq.categories < MaxCategories
  /\ Called("add_category", 0, 0, add_category_call(db, lock, name), <<>>)

update_category(c, name) ==
  Called("update_category", c, 0, update_category_call(db, lock, c, name), <<>>)

delete_category(c) ==
  Called("delete_category", c, 0, delete_category_call(db, lock, c), <<>>)

add_author(name) ==
  /\ db.seq.authors < MaxNamed
  /\ Called("add_author", 0, 0, add_author_call(db, lock, name), <<>>)

delete_author(a) ==
  Called("delete_author", a, 0, delete_author_call(db, lock, a), <<>>)

add_publisher(name) ==
  /\ db.seq.publishers < MaxNamed
  /\ Called("add_publisher", 0, 0, add_publisher_call(db, lock, name), <<>>)

delete_publisher(p) ==
  Called("delete_publisher", p, 0, delete_publisher_call(db, lock, p), <<>>)

\* one of the three guard reads, called directly: a SELECT COUNT(*) on its own
\* connection, closed in the finally block; n is the count it returns
GuardRead(op, a, n) ==
  /\ last' = [op |-> op, a |-> a, b |-> 0, err |-> "ok", ret |-> n]
  /\ UNCHANGED <<db, lock, wdb, cache, now, procs>>

\* POST /books/edit/<id>, served alone: 404 without the book; update_book;
\* then the comparison of the new quantity with the count update_book returned
edit_book(b, q) ==
  IF get_book_by_id(db, b) = {}
  THEN /\ last' = [op |-> "edit_book", a |-> b, b |-> q, err |-> "NotFound", ret |-> 0]
       /\ UNCHANGED <<db, lock, wdb, cache, now, procs>>
  ELSE LET out == update_book_call(db, lock, b, Title1, NONE, NULL, NONE, NONE, q)
           flash == IF out.err # "ok" THEN "error"
                    ELSE IF q < out.ret THEN "conflict" ELSE "ok"
       IN /\ db' = out.db
          /\ lock' \in (IF out.open THEN {0, LEAKED} ELSE {lock})
          /\ cache' = IF out.err = "ok" THEN ClearAll(cache, <<BooksPrefix>>) ELSE cache
          /\ last' = [op |-> "edit_book", a |-> b, b |-> q, err |-> flash, ret |-> out.ret]
          /\ UNCHANGED <<wdb, now, procs>>

\* the clock advances
Tick ==
  /\ now < MaxTime
  /\ now' = now + 1
  /\ UNCHANGED <<db, lock, wdb, cache, last, procs>>

\* a garbage collection closes the abandoned connection: its transaction is
\* rolled back and the write lock released
GcCollect ==
  /\ lock = LEAKED
  /\ lock' = 0
  /\ UNCHANGED <<db, wdb, cache, now, last, procs>>

\* Loan accounting: books, borrowers and loans, called one at a time
Next ==
  \/ \E q \in 0..MaxQty : add_book(Title1, NONE, NULL, NONE, NONE, q)
  \/ \E b \in BookArgs, q \in 0..MaxQty : update_book(b, Title1, NONE, NULL, NONE, NONE, q)
  \/ \E b \in BookArgs : delete_book(b)
  \/ add_borrower("u", NONE)
  \/ \E r \in BorrowerArgs : delete_borrower(r)
  \/ \E b \in BookArgs, r \in BorrowerArgs : add_loan(b, r)
  \/ \E l \in LoanArgs : return_loan(l)
  \/ \E b \in BookArgs, q \in 0..MaxQty : edit_book(b, q)
  \/ \E b \in BookArgs :
        GuardRead("get_loans_count_for_book", b, get_loans_count_for_book(db, b))
  \/ \E r \in BorrowerArgs :
        GuardRead("get_loans_count_for_borrower", r, get_loans_count_for_borrower(db, r))
  \/ \E r \in BorrowerArgs :
        GuardRead("get_active_loans_count_for_borrower", r,
                  get_active_loans_count_for_borrower(db, r))
  \/ Tick
  \/ GcCollect

Spec == Init /\ [][Next]_vars


\* ------------------------------------------------- requests, step by step
\* Each worker serves one request at a time; a step is one access to the
\* store.  A write transaction holds SQLite's write lock from its first
\* statement to its commit; a writer that finds the lock held by a live
\* worker waits (busy_timeout), and one that finds it leaked gives up with
\* "database is locked" once retry_db's attempts are spent.
At(p, pc) == procs[p].pc = pc

Goto(p, rec) == procs' = [procs EXCEPT ![p] = rec]

Ended(p, res) == [procs[p] EXCEPT !.pc = "done", !.res = res]

\* every statement committed as it runs
Autocommit(d, w) == w

\* what the other connections read while a transaction has run a statement
\* and not yet committed: the committed store d, not the writer's view w
Uncommitted(d, w) == d

\* a guard that lets one reference through
RefusesMoreThanOne(count) == count > 1

\* `if count and count > 0`: the guard of the delete routes
Refuses(count) == count > 0

\* a whole core call made by worker p inside a route's try block
CallStep(p, me, out, prefixes) ==
  /\ lock \notin Procs
  /\ db' = out.db
  /\ lock' \in (IF out.open THEN {0, LEAKED} ELSE {lock})
  /\ cache' = IF out.err = "ok" THEN ClearAll(cache, prefixes) ELSE cache
  /\ Goto(p, [me EXCEPT !.pc = "done", !.res = IF out.err = "ok" THEN "ok" ELSE "failed"])
  /\ UNCHANGED <<wdb, now, last>>

\* a step that only reads the store and moves worker p to rec
ReadStep(p, rec) ==
  /\ Goto(p, rec)
  /\ UNCHANGED <<db, lock, wdb, cache, now, last>>

\* the request is answered
Finish(p) ==
  /\ At(p, "done")
  /\ ReadStep(p, Idle)

\* ---- /loans/add : get_book_by_id, then add_loan
AddLoanRead(p, b, r) ==
  /\ At(p, "idle")
  /\ db.seq.loans < MaxLoans
  /\ LET book == get_book_by_id(db, b)
         avail == IF book = {} THEN 0 ELSE (CHOOSE x \in book : TRUE).available
         me == [Idle EXCEPT !.op = "add_loan", !.a = b, !.b = r, !.seen = avail]
     IN IF book # {} /\ avail > 0
        THEN ReadStep(p, [me EXCEPT !.pc = "al_insert"])
        ELSE ReadStep(p, [me EXCEPT !.pc = "done", !.res = "refused"])

AddLoanInsert(p) ==
  /\ At(p, "al_insert")
  /\ db.seq.loans < MaxLoans
  /\ \/ /\ lock = LEAKED
        /\ Goto(p, Ended(p, "failed"))
        /\ UNCHANGED <<db, lock, wdb, cache, now, last>>
     \/ /\ lock = 0
        /\ LET r1 == SqlInsertLoan(db, procs[p].a, procs[p].b) IN
           IF r1.err = "ok"
           THEN /\ lock' = p
                /\ wdb' = r1.db
                /\ db' = Uncommitted(db, r1.db)
                /\ Goto(p, [procs[p] EXCEPT !.pc = "al_update"])
                /\ UNCHANGED <<cache, now, last>>
           ELSE /\ lock' \in {0, LEAKED}
                /\ Goto(p, Ended(p, "failed"))
                /\ UNCHANGED <<db, wdb, cache, now, last>>

AddLoanUpdate(p) ==
  /\ At(p, "al_update")
  /\ LET r2 == SqlAdjustAvailable(wdb, procs[p].a, -1) IN
       /\ wdb' = r2.db
       /\ db' = Uncommitted(db, r2.db)
  /\ Goto(p, [procs[p] EXCEPT !.pc = "al_commit"])
  /\ UNCHANGED <<lock, cache, now, last>>

AddLoanCommit(p) ==
  /\ At(p, "al_commit")
  /\ db' = wdb
  /\ wdb' = EmptyDb
  /\ lock' = 0
  /\ cache' = ClearAll(cache, <<BooksPrefix, BorrowersPrefix>>)
  /\ Goto(p, Ended(p, "ok"))
  /\ UNCHANGED <<now, last>>

\* ---- /loans/return/<id> : return_loan, no try block around it
ReturnLoanSelect(p, l) ==
  /\ At(p, "idle")
  /\ ReturnBounded(db, l)
  /\ LET me == [Idle EXCEPT !.op = "return_loan", !.a = l] IN
     IF l \in DOMAIN db.loans
     THEN ReadStep(p, [me EXCEPT !.pc = "rl_mark", !.seen = db.loans[l].book_id])
     ELSE ReadStep(p, [me EXCEPT !.pc = "done", !.res = "failed"])

ReturnLoanMark(p) ==
  /\ At(p, "rl_mark")
  /\ \/ /\ lock = LEAKED
        /\ Goto(p, Ended(p, "failed"))
        /\ UNCHANGED <<db, lock, wdb, cache, now, last>>
     \/ /\ lock = 0
        /\ LET r1 == SqlMarkReturned(db, procs[p].a, now) IN
             /\ wdb' = r1.db
             /\ db' = Uncommitted(db, r1.db)
        /\ lock' = p
        /\ Goto(p, [procs[p] EXCEPT !.pc = "rl_update", !.b = now])
        /\ UNCHANGED <<cache, now, last>>

ReturnLoanUpdate(p) ==
  /\ At(p, "rl_update")
  /\ LET r2 == SqlAdjustAvailable(wdb, procs[p].seen, 1) IN
       /\ wdb' = r2.db
       /\ db' = Uncommitted(db, r2.db)
  /\ Goto(p, [procs[p] EXCEPT !.pc = "rl_commit"])
  /\ UNCHANGED <<lock, cache, now, last>>

ReturnLoanCommit(p) ==
  /\ At(p, "rl_commit")
  /\ db' = wdb
  /\ wdb' = EmptyDb
  /\ lock' = 0
  /\ cache' = ClearAll(cache, <<BooksPrefix, BorrowersPrefix>>)
  /\ Goto(p, Ended(p, "ok"))
  /\ UNCHANGED <<now, last>>

\* a statement of an open transaction raises (an I/O error, the worker is
\* stopped): commit is never reached and the transaction is rolled back
TxnFails(p) ==
  /\ lock = p
  /\ lock' \in {0, LEAKED}
  /\ wdb' = EmptyDb
  /\ Goto(p, Ended(p, "failed"))
  /\ UNCHANGED <<db, cache, now, last>>

\* ---- /books/add and /borrowers/add
AddBookCheck(p, cat, an, pn, q) ==
  /\ At(p, "idle")
  /\ db.seq.books < MaxBooks
  /\ LET me == [Idle EXCEPT !.op = "add_book", !.a = cat, !.b = q,
                            !.name = an, !.name2 = pn] IN
     IF cat # NULL /\ cat \notin DOMAIN db.categories
     THEN ReadStep(p, [me EXCEPT !.pc = "done", !.res = "refused"])
     ELSE ReadStep(p, [me EXCEPT !.pc = "ab_insert"])

AddBookInsert(p) ==
  /\ At(p, "ab_insert")
  /\ db.seq.books < MaxBooks
  /\ CallStep(p, procs[p], add_book_call(db, lock, Title1, NONE, procs[p].a, procs[p].name,
                               procs[p].name2, procs[p].b), <<BooksPrefix>>)

AddBorrowerRoute(p, name, email) ==
  /\ At(p, "idle")
  /\ db.seq.borrowers < MaxBorrowers
  /\ CallStep(p, [Idle EXCEPT !.op = "add_borrower"],
              add_borrower_call(db, lock, name, email), <<BorrowersPrefix>>)


\* ---- /categories/add, /authors/add, /publishers/add
AddCategoryRoute(p, name) ==
  /\ At(p, "idle")
  /\ db.seq.categories < MaxCategories
  /\ CallStep(p, [Idle EXCEPT !.op = "add_category"],
              add_category_call(db, lock, name), <<>>)

AddAuthorRoute(p, name) ==
  /\ At(p, "idle")
  /\ db.seq.authors < MaxNamed
  /\ CallStep(p, [Idle EXCEPT !.op = "add_author"], add_author_call(db, lock, name), <<>>)

AddPublisherRoute(p, name) ==
  /\ At(p, "idle")
  /\ db.seq.publishers < MaxNamed
  /\ CallStep(p, [Idle EXCEPT !.op = "add_publisher"],
              add_publisher_call(db, lock, name), <<>>)

\* ---- /books/delete/<id> : get_loans_count_for_book, then delete_book
DeleteBookGuard(p, b) ==
  /\ At(p, "idle")
  /\ LET n == get_loans_count_for_book(db, b)
         me == [Idle EXCEPT !.op = "delete_book", !.a = b, !.seen = n]
     IN IF Refuses(n)
        THEN ReadStep(p, [me EXCEPT !.pc = "done", !.res = "refused"])
        ELSE ReadStep(p, [me EXCEPT !.pc = "db_delete"])

DeleteBookDelete(p) ==
  /\ At(p, "db_delete")
  /\ CallStep(p, procs[p], delete_book_call(db, lock, procs[p].a), <<BooksPrefix>>)

\* ---- /borrowers/delete/<id> : active loans, then loan history, then delete_borrower
DeleteBorrowerActive(p, r) ==
  /\ At(p, "idle")
  /\ LET n == get_active_loans_count_for_borrower(db, r)
         me == [Idle EXCEPT !.op = "delete_borrower", !.a = r, !.seen = n]
     IN IF Refuses(n)
        THEN ReadStep(p, [me EXCEPT !.pc = "done", !.res = "refused"])
        ELSE ReadStep(p, [me EXCEPT !.pc = "dr_total"])

DeleteBorrowerTotal(p) ==
  /\ At(p, "dr_total")
  /\ LET n == get_loans_count_for_borrower(db, procs[p].a)
         me == [procs[p] EXCEPT !.seen = n]
     IN IF Refuses(n)
        THEN ReadStep(p, [me EXCEPT !.pc = "done", !.res = "refused"])
        ELSE ReadStep(p, [me EXCEPT !.pc = "dr_delete"])

DeleteBorrowerDelete(p) ==
  /\ At(p, "dr_delete")
  /\ CallStep(p, procs[p], delete_borrower_call(db, lock, procs[p].a), <<BorrowersPrefix>>)

\* ---- /categories/delete/<id> : get_all_books('', id), then delete_category
DeleteCategoryGuard(p, c) ==
  /\ At(p, "idle")
  /\ LET got == get_all_books(db, cache, <<>>, c, now)
         n == Cardinality(got.value)
         me == [Idle EXCEPT !.op = "delete_category", !.a = c, !.seen = n]
     IN /\ cache' = got.cache
        /\ IF Refuses(n)
           THEN Goto(p, [me EXCEPT !.pc = "done", !.res = "refused"])
           ELSE Goto(p, [me EXCEPT !.pc = "dc_delete"])
  /\ UNCHANGED <<db, lock, wdb, now, last>>

DeleteCategoryDelete(p) ==
  /\ At(p, "dc_delete")
  /\ CallStep(p, procs[p], delete_category_call(db, lock, procs[p].a), <<>>)

\* ---- /authors/delete/<id> : get_author_by_id, get_all_books(), then delete_author
DeleteAuthorLookup(p, a) ==
  /\ At(p, "idle")
  /\ LET me == [Idle EXCEPT !.op = "delete_author", !.a = a] IN
     IF a \in DOMAIN db.authors
     THEN ReadStep(p, [me EXCEPT !.pc = "da_scan", !.name = db.authors[a]])
     ELSE ReadStep(p, [me EXCEPT !.pc = "done", !.res = "failed"])

DeleteAuthorScan(p) ==
  /\ At(p, "da_scan")
  /\ LET got == get_all_books(db, cache, <<>>, NULL, now)
         n == Cardinality({row \in got.value : row.author_name = procs[p].name})
         me == [procs[p] EXCEPT !.seen = n]
     IN /\ cache' = got.cache
        /\ IF Refuses(n)
           THEN Goto(p, [me EXCEPT !.pc = "done", !.res = "refused"])
           ELSE Goto(p, [me EXCEPT !.pc = "da_delete"])
  /\ UNCHANGED <<db, lock, wdb, now, last>>

DeleteAuthorDelete(p) ==
  /\ At(p, "da_delete")
  /\ CallStep(p, procs[p], delete_author_call(db, lock, procs[p].a), <<>>)

\* ---- /publishers/delete/<id>
DeletePublisherLookup(p, a) ==
  /\ At(p, "idle")
  /\ LET me == [Idle EXCEPT !.op = "delete_publisher", !.a = a] IN
     IF a \in DOMAIN db.publishers
     THEN ReadStep(p, [me EXCEPT !.pc = "dp_scan", !.name = db.publishers[a]])
     ELSE ReadStep(p, [me EXCEPT !.pc = "done", !.res = "failed"])

DeletePublisherScan(p) ==
  /\ At(p, "dp_scan")
  /\ LET got == get_all_books(db, cache, <<>>, NULL, now)
         n == Cardinality({row \in got.value : row.publisher_name = procs[p].name})
         me == [procs[p] EXCEPT !.seen = n]
     IN /\ cache' = got.cache
        /\ IF Refuses(n)
           THEN Goto(p, [me EXCEPT !.pc = "done", !.res = "refused"])
           ELSE Goto(p, [me EXCEPT !.pc = "dp_delete"])
  /\ UNCHANGED <<db, lock, wdb, now, last>>

DeletePublisherDelete(p) ==
  /\ At(p, "dp_delete")
  /\ CallStep(p, procs[p], delete_publisher_call(db, lock, procs[p].a), <<>>)

\* ------------------------------------------------------- specifications
\* Concurrent loan requests: books and borrowers are added, loans are made
\* and returned by NProcs workers whose steps interleave
NextLoans ==
  \/ \E p \in Procs, q \in 0..MaxQty : AddBookCheck(p, NULL, NONE, NONE, q)
  \/ \E p \in Procs : AddBookInsert(p)
  \/ \E p \in Procs : AddBorrowerRoute(p, "u", NONE)
  \/ \E p \in Procs, b \in BookArgs, r \in BorrowerArgs : AddLoanRead(p, b, r)
  \/ \E p \in Procs : AddLoanInsert(p)
  \/ \E p \in Procs : AddLoanUpdate(p)
  \/ \E p \in Procs : AddLoanCommit(p)
  \/ \E p \in Procs, l \in LoanArgs : ReturnLoanSelect(p, l)
  \/ \E p \in Procs : ReturnLoanMark(p)
  \/ \E p \in Procs : ReturnLoanUpdate(p)
  \/ \E p \in Procs : ReturnLoanCommit(p)
  \/ \E p \in Procs : TxnFails(p)
  \/ \E p \in Procs : Finish(p)
  \/ Tick
  \/ GcCollect

SpecLoans == Init /\ [][NextLoans]_vars


\* The delete routes against concurrent requests that add references: every
\* table is in play, one copy per book.  Worker 1 serves the delete requests,
\* the other workers the requests that add rows, make loans and return them.
Deleters == {1}

Adders == Procs \ Deleters

\* one whole add_loan call of a worker that found the book available
AddLoanCall(p) ==
  /\ At(p, "al_insert")
  /\ db.seq.loans < MaxLoans
  /\ CallStep(p, procs[p], add_loan_call(db, lock, procs[p].a, procs[p].b),
              <<BooksPrefix, BorrowersPrefix>>)

\* one whole /loans/return/<id> request
ReturnLoanCall(p, l) ==
  /\ At(p, "idle")
  /\ ReturnBounded(db, l)
  /\ CallStep(p, [Idle EXCEPT !.op = "return_loan", !.a = l],
              return_loan_call(db, lock, l, now), <<BooksPrefix, BorrowersPrefix>>)

NextGuards ==
  \/ \E p \in Adders, c \in CategoryNames : AddCategoryRoute(p, c)
  \/ \E p \in Adders, n \in PersonNames : AddAuthorRoute(p, n)
  \/ \E p \in Adders, n \in PersonNames : AddPublisherRoute(p, n)
  \/ \E p \in Adders, c \in {NULL} \cup CategoryArgs, n \in {NONE} \cup PersonNames :
        db.seq.books < RefBooks /\ AddBookCheck(p, c, n, n, 1)
  \/ \E p \in Adders : AddBookInsert(p)
  \/ \E p \in Adders : db.seq.borrowers < RefBorrowers /\ AddBorrowerRoute(p, "u", NONE)
  \/ \E p \in Adders, b \in 1..RefBooks, r \in 1..RefBorrowers :
        db.seq.loans < RefLoans /\ AddLoanRead(p, b, r)
  \/ \E p \in Adders : AddLoanCall(p)
  \/ \E p \in Adders, l \in 1..RefLoans : ReturnLoanCall(p, l)
  \/ \E p \in Deleters, b \in 1..RefBooks : DeleteBookGuard(p, b)
  \/ \E p \in Deleters : DeleteBookDelete(p)
  \/ \E p \in Deleters, r \in 1..RefBorrowers : DeleteBorrowerActive(p, r)
  \/ \E p \in Deleters : DeleteBorrowerTotal(p)
  \/ \E p \in Deleters : DeleteBorrowerDelete(p)
  \/ \E p \in Deleters, c \in CategoryArgs : DeleteCategoryGuard(p, c)
  \/ \E p \in Deleters : DeleteCategoryDelete(p)
  \/ \E p \in Deleters, a \in NamedArgs : DeleteAuthorLookup(p, a)
  \/ \E p \in Deleters : DeleteAuthorScan(p)
  \/ \E p \in Deleters : DeleteAuthorDelete(p)
  \/ \E p \in Deleters, a \in NamedArgs : DeletePublisherLookup(p, a)
  \/ \E p \in Deleters : DeletePublisherScan(p)
  \/ \E p \in Deleters : DeletePublisherDelete(p)
  \/ \E p \in Procs : Finish(p)
  \/ GcCollect

SpecGuards == Init /\ [][NextGuards]_vars


\* Referential rules: every table, called one at a time, one copy per book
NextRefs ==
  \/ \E c \in CategoryNames : add_category(c)
  \/ \E c \in CategoryArgs : delete_category(c)
  \/ \E n \in PersonNames : add_author(n)
  \/ \E a \in NamedArgs : delete_author(a)
  \/ \E n \in PersonNames : add_publisher(n)
  \/ \E a \in NamedArgs : delete_publisher(a)
  \/ \E c \in {NULL} \cup CategoryArgs, an \in {NONE} \cup PersonNames,
        pn \in {NONE} \cup PersonNames :
        db.seq.books < RefBooks /\ add_book(Title1, NONE, c, an, pn, 1)
  \/ \E b \in 1..RefBooks : delete_book(b)
  \/ db.seq.borrowers < RefBorrowers /\ add_borrower("u", NONE)
  \/ \E r \in 1..RefBorrowers : delete_borrower(r)
  \/ \E b \in 1..RefBooks, r \in 1..RefBorrowers :
        db.seq.loans < RefLoans /\ add_loan(b, r)
  \/ \E l \in 1..RefLoans : return_loan(l)
  \/ GcCollect

SpecRefs == Init /\ [][NextRefs]_vars

\* ---- the cached reads, called directly
\* one cached read: got is [value, cache]; rows is the list returned
CachedRead(op, a, got) ==
  /\ cache' = got.cache
  /\ last' = [op |-> op, a |-> a, b |-> 0, err |-> "ok", ret |-> 0, rows |-> got.value]
  /\ UNCHANGED <<db, lock, wdb, now, procs>>

read_books(filter) ==
  CachedRead("get_all_books", filter, get_all_books(db, cache, <<>>, filter, now))

read_borrowers ==
  CachedRead("get_all_borrowers", 0, get_all_borrowers(db, cache, now))

\* the clock advances, far enough for a cache entry to pass its TTL: the
\* instants looked at are 0, the TTL, and each second after it
TickCache ==
  /\ now < MaxAge
  /\ now' = IF now < CACHE_TTL THEN CACHE_TTL ELSE now + 1
  /\ UNCHANGED <<db, lock, wdb, cache, last, procs>>

RenameNames == {"Fiction", "Novel"}

\* Cache: the writes that clear it, update_category, and the two cached
\* reads, called one at a time while the clock runs past the TTL
NextCache ==
  \/ add_category("Fiction")
  \/ \E c \in CategoryArgs, n \in RenameNames : update_category(c, n)
  \/ \E c \in {NULL} \cup CategoryArgs :
        db.seq.books < RefBooks /\ add_book(Title1, NONE, c, NONE, NONE, 1)
  \/ \E b \in 1..RefBooks, c \in {NULL} \cup CategoryArgs :
        update_book(b, Title1, NONE, c, NONE, NONE, 1)
  \/ \E b \in 1..RefBooks : delete_book(b)
  \/ db.seq.borrowers < RefBorrowers /\ add_borrower("u", NONE)
  \/ \E r \in 1..RefBorrowers, n \in {"u", "v"} : update_borrower(r, n, NONE)
  \/ \E r \in 1..RefBorrowers : delete_borrower(r)
  \/ \E b \in 1..RefBooks, r \in 1..RefBorrowers :
        db.seq.loans < RefLoans /\ add_loan(b, r)
  \/ \E l \in 1..RefLoans : return_loan(l)
  \/ \E c \in {NULL} \cup CategoryArgs : read_books(c)
  \/ read_borrowers
  \/ TickCache
  \/ GcCollect

SpecCache == Init /\ [][NextCache]_vars

\* ---- get_all_books and the book writes, step by step
\* get_all_books, first step: the key and _cache_get; a hit is returned
BooksLookup(p) ==
  LET got == cache_get(cache, BooksKey(<<>>, NULL), now) IN
  /\ At(p, "idle")
  /\ cache' = got.cache
  /\ Goto(p, IF got.hit
             THEN [Idle EXCEPT !.op = "get_all_books", !.pc = "done",
                               !.seen = got.value, !.res = "hit"]
             ELSE [Idle EXCEPT !.op = "get_all_books", !.pc = "query"])
  /\ UNCHANGED <<db, lock, wdb, now, last>>

\* the SELECT on a connection of its own
BooksQuery(p) ==
  /\ At(p, "query")
  /\ ReadStep(p, [procs[p] EXCEPT !.pc = "set", !.seen = QueryBooks(db, <<>>, NULL)])

\* _cache_set with the time of this step, then the return
BooksStore(p) ==
  /\ At(p, "set")
  /\ cache' = cache_set(cache, BooksKey(<<>>, NULL), procs[p].seen, now)
  /\ Goto(p, [procs[p] EXCEPT !.pc = "done", !.res = "miss"])
  /\ UNCHANGED <<db, lock, wdb, now, last>>

\* a book write up to conn.commit() and conn.close(); last.at is the time of
\* the commit
WriteCommit(p, op, a, out) ==
  /\ At(p, "idle")
  /\ lock = 0
  /\ out.err = "ok"
  /\ db' = out.db
  /\ last' = [op |-> op, a |-> a, b |-> 0, err |-> out.err, ret |-> out.ret, at |-> now]
  /\ Goto(p, [Idle EXCEPT !.op = op, !.pc = "clear", !.a = a])
  /\ UNCHANGED <<lock, wdb, cache, now>>

\* _cache_clear('books'), then the return
WriteClear(p) ==
  /\ At(p, "clear")
  /\ cache' = cache_clear(cache, BooksPrefix)
  /\ Goto(p, Ended(p, "ok"))
  /\ UNCHANGED <<db, lock, wdb, now, last>>

\* the clock advances while requests are served: the instants looked at are
\* 0, one second later, and a TTL after that
TickStall ==
  /\ now < MaxAge
  /\ now' = IF now = 0 THEN 1 ELSE now + CACHE_TTL
  /\ UNCHANGED <<db, lock, wdb, cache, last, procs>>

\* Readers and writers: every worker serves get_all_books, add_book and
\* delete_book requests, in any interleaving of their steps
NextReaders ==
  \/ \E p \in Procs : BooksLookup(p)
  \/ \E p \in Procs : BooksQuery(p)
  \/ \E p \in Procs : BooksStore(p)
  \/ \E p \in Procs :
        /\ db.seq.books < MaxBooks
        /\ WriteCommit(p, "add_book", 0,
                       add_book_call(db, lock, Title1, NONE, NULL, NONE, NONE, 1))
  \/ \E p \in Procs, b \in BookArgs :
        /\ b \in DOMAIN db.books
        /\ WriteCommit(p, "delete_book", b, delete_book_call(db, lock, b))
  \/ \E p \in Procs : WriteClear(p)
  \/ \E p \in Procs : Finish(p)
  \/ TickStall

SpecReaders == Init /\ [][NextReaders]_vars

\* ---- the UNIQUE columns: isbn, email and category name, called directly
Isbns == {NONE, "i1", "i2"}

Emails == {NONE, "e1"}

\* Unique columns: books, borrowers and categories added and updated one at
\* a time with values that repeat
NextUnique ==
  \/ \E i \in Isbns : add_book(Title1, i, NULL, NONE, NONE, 1)
  \/ \E b \in BookArgs, i \in Isbns : update_book(b, Title1, i, NULL, NONE, NONE, 1)
  \/ \E e \in Emails : add_borrower("u", e)
  \/ \E r \in BorrowerArgs, e \in Emails : update_borrower(r, "u", e)
  \/ \E n \in RenameNames :
        /\ db.seq.categories < MaxUnique
        /\ Called("add_category", 0, 0, add_category_call(db, lock, n), <<>>)
  \/ \E c \in 1..MaxUnique, n \in RenameNames : update_category(c, n)
  \/ GcCollect

SpecUnique == Init /\ [][NextUnique]_vars

\* ---- init_db and seed_default_categories, run at every start
\* library.db before the first init_db: no table
NoTables == [x \in {} |-> 0]

\* an init_db that drops and recreates the tables
InitDbRecreates(d) == EmptyDb

\* init_db: CREATE TABLE IF NOT EXISTS for each of the six tables (the
\* AUTOINCREMENT ids bring sqlite_sequence with them); a table that exists
\* is left as it is
init_db_call(d) ==
  [categories |-> IF "categories" \in DOMAIN d THEN d.categories ELSE Empty,
   authors    |-> IF "authors" \in DOMAIN d THEN d.authors ELSE Empty,
   publishers |-> IF "publishers" \in DOMAIN d THEN d.publishers ELSE Empty,
   books      |-> IF "books" \in DOMAIN d THEN d.books ELSE Empty,
   borrowers  |-> IF "borrowers" \in DOMAIN d THEN d.borrowers ELSE Empty,
   loans      |-> IF "loans" \in DOMAIN d THEN d.loans ELSE Empty,
   seq        |-> IF "seq" \in DOMAIN d THEN d.seq ELSE EmptyDb.seq]

DefaultCategories == <<"Fiction", "Non-Fiction", "Science", "History", "Biography">>

\* the INSERTs of the loop over default_categories, in order
RECURSIVE InsertCategories(_, _)
InsertCategories(r, names) ==
  IF names = <<>> \/ r.err # "ok" THEN r
  ELSE InsertCategories(SqlInsertCategory(r.db, Head(names)), Tail(names))

\* a seeding that inserts the defaults whatever the table holds
SeedAlways(d, lk) ==
  IF lk # 0 THEN Busy(d)
  ELSE Commit(InsertCategories(Ran(d), DefaultCategories), 0, d)

\* seed_default_categories: SELECT COUNT(*); the inserts and the commit only
\* when the count is 0
seed_default_categories_call(d, lk) ==
  IF Cardinality(DOMAIN d.categories) # 0
  THEN [err |-> "ok", ret |-> 0, db |-> d, open |-> FALSE]
  ELSE IF lk # 0 THEN Busy(d)
  ELSE Commit(InsertCategories(Ran(d), DefaultCategories), 0, d)

init_db ==
  /\ db' = init_db_call(db)
  /\ last' = [op |-> "init_db", a |-> 0, b |-> 0, err |-> "ok", ret |-> 0]
  /\ UNCHANGED <<lock, wdb, cache, now, procs>>

seed_default_categories ==
  /\ db.seq.categories + Len(DefaultCategories) <= MaxSeedIds
  /\ Called("seed_default_categories", 0, 0, seed_default_categories_call(db, lock), <<>>)

InitSeed ==
  /\ db = NoTables
  /\ lock = 0
  /\ wdb = EmptyDb
  /\ cache = Empty
  /\ now = 0
  /\ last = [op |-> "init", a |-> 0, b |-> 0, err |-> "ok", ret |-> 0]
  /\ procs = [p \in Procs |-> Idle]

\* Start-up: init_db and seed_default_categories run again and again between
\* category and book writes
NextSeed ==
  \/ init_db
  \/ db # NoTables /\
       (\/ seed_default_categories
        \/ \E n \in RenameNames :
              /\ db.seq.categories < MaxSeedIds
              /\ Called("add_category", 0, 0, add_category_call(db, lock, n), <<>>)
        \/ \E c \in 1..MaxSeedIds : c \in DOMAIN db.categories /\ delete_category(c)
        \/ \E c \in 1..MaxSeedIds :
              db.seq.books < RefBooks /\ add_book(Title1, NONE, c, NONE, NONE, 1)
        \/ GcCollect)

SpecSeed == InitSeed /\ [][NextSeed]_vars

\* ---- update_book, statement by statement, against the loan calls
\* the SELECT COUNT(*) of the book's active loans: a read outside any
\* transaction, kept in active_loans
UpdateBookCount(p, b, q) ==
  /\ At(p, "idle")
  /\ b \in DOMAIN db.books
  /\ ReadStep(p, [Idle EXCEPT !.op = "update_book", !.pc = "ub_update", !.a = b, !.b = q,
                              !.seen = ActiveLoansOfBook(db, b)])

\* the UPDATE with available = quantity - active_loans, the commit and the
\* cache clear
UpdateBookWrite(p) ==
  /\ At(p, "ub_update")
  /\ CallStep(p, procs[p],
              IF lock # 0 THEN Busy(db)
              ELSE Commit(SqlUpdateBook(db, procs[p].a, Title1, NONE, NULL, NONE, NONE,
                                        procs[p].b, procs[p].b - procs[p].seen),
                          procs[p].seen, db),
              <<BooksPrefix>>)

\* Edits: update_book requests against add_loan and return_loan calls on the
\* one book, every loan returned at most once
NextEdits ==
  \/ \E p \in Procs : db.seq.books < RefBooks /\ AddBookCheck(p, NULL, NONE, NONE, 1)
  \/ \E p \in Procs : AddBookInsert(p)
  \/ \E p \in Procs : db.seq.borrowers < RefBorrowers /\ AddBorrowerRoute(p, "u", NONE)
  \/ \E p \in Procs, b \in 1..RefBooks, r \in 1..RefBorrowers : AddLoanRead(p, b, r)
  \/ \E p \in Procs : AddLoanCall(p)
  \/ \E p \in Procs, l \in LoanArgs :
        /\ l \in DOMAIN db.loans /\ db.loans[l].status = "active"
        /\ ReturnLoanCall(p, l)
  \/ \E p \in Procs, b \in 1..RefBooks, q \in 1..(MaxQty + 1) : UpdateBookCount(p, b, q)
  \/ \E p \in Procs : UpdateBookWrite(p)
  \/ \E p \in Procs : Finish(p)

SpecEdits == Init /\ [][NextEdits]_vars

\* ---- GET /books : get_all_books with the request's two text arguments
\* f"books:{search}:{category_filter}" with a text category_filter
BooksKeyOf(search, category) ==
  BooksPrefix \o <<":">> \o search \o <<":">> \o category

\* the query of get_all_books with a text category_filter: '' adds no
\* condition, any other text is compared with the integer category_id
QueryBooksBy(d, search, category) ==
  {BookRow(d, b) : b \in {x \in DOMAIN d.books :
      /\ (search = <<>> \/ Contains(d.books[x].title, search))
      /\ (category = <<>> \/ (d.books[x].category_id # NULL
                               /\ Str(d.books[x].category_id) = category))}}

\* books(): search and category from the query string, then get_all_books
books_route(search, category) ==
  LET key == BooksKeyOf(search, category)
      got == cache_get(cache, key, now)
      rows == QueryBooksBy(db, search, category)
  IN CachedRead("books", 0,
                IF got.hit THEN [value |-> got.value, cache |-> got.cache]
                ELSE [value |-> rows, cache |-> cache_set(got.cache, key, rows, now)])

TitleColon == <<"a", ":">>

Searches == {<<"a">>, <<"a", ":">>}

Filters == {<<>>, <<":">>, <<"1">>}

\* Keys: the book list requested with searches and filters that hold the
\* ':' of the key, between book writes
NextKeys ==
  \/ add_category("Fiction")
  \/ \E t \in {Title1, TitleColon}, c \in {NULL} \cup CategoryArgs :
        add_book(t, NONE, c, NONE, NONE, 1)
  \/ \E b \in BookArgs : delete_book(b)
  \/ \E s \in Searches, c \in Filters : books_route(s, c)
  \/ GcCollect

SpecKeys == Init /\ [][NextKeys]_vars

\* ---- retry_db around add_loan, attempt by attempt
MAX_ATTEMPTS == 5    \* max_attempts

INITIAL_DELAY == 1   \* initial_delay, in units of 0.05 s

BACKOFF == 2         \* backoff

\* a loop that allows one attempt more
ExhaustedOneLate(attempt) == attempt = MAX_ATTEMPTS + 1

\* `if attempt == max_attempts: raise`
Exhausted(attempt) == attempt = MAX_ATTEMPTS

\* a wrapper that takes every exception for a busy store
EveryErrorBusy(err) == err # "ok"

\* `except sqlite3.OperationalError` whose message names a locked or busy
\* database; "OperationalError" is that error here
IsBusy(err) == err = "OperationalError"

\* the wrapped calls that have been entered and have not returned or raised
InFlight == {p \in Procs : procs[p].pc \in {"attempt", "sleep"}}

\* wrapper(*args): delay = initial_delay, first attempt ahead
RetryStart(p, b, r) ==
  /\ At(p, "idle")
  /\ db.seq.loans + Cardinality(InFlight) < MaxLoans
  /\ ReadStep(p, [Idle EXCEPT !.op = "add_loan", !.pc = "attempt", !.a = b, !.b = r,
                              !.attempt = 1, !.delay = INITIAL_DELAY])

\* one pass of the loop: fn(*args) returns, or raises a busy error that is
\* retried or (on the last attempt) re-raised, or raises anything else
RetryAttempt(p) ==
  /\ At(p, "attempt")
  /\ LET me == procs[p]
         out == add_loan_call(db, lock, me.a, me.b)
     IN /\ db' = out.db
        /\ lock' \in (IF out.open THEN {0, LEAKED} ELSE {lock})
        /\ cache' = IF out.err = "ok"
                    THEN ClearAll(cache, <<BooksPrefix, BorrowersPrefix>>) ELSE cache
        /\ IF out.err = "ok"
           THEN Goto(p, [me EXCEPT !.pc = "done", !.res = "ok", !.err = "ok", !.ret = out.ret])
           ELSE IF IsBusy(out.err) /\ ~Exhausted(me.attempt)
           THEN Goto(p, [me EXCEPT !.pc = "sleep", !.err = out.err])
           ELSE Goto(p, [me EXCEPT !.pc = "done", !.res = "failed", !.err = out.err])
  /\ UNCHANGED <<wdb, now, last>>

\* a sleep after which the delay grows by initial_delay instead of doubling
RetrySleepLinear(p) ==
  /\ At(p, "sleep")
  /\ ReadStep(p, [procs[p] EXCEPT !.pc = "attempt", !.attempt = @ + 1,
                                  !.delay = @ + INITIAL_DELAY])

\* time.sleep(delay); delay *= backoff; continue
RetrySleep(p) ==
  /\ At(p, "sleep")
  /\ ReadStep(p, [procs[p] EXCEPT !.pc = "attempt", !.attempt = @ + 1, !.delay = @ * BACKOFF])

\* Wrapped add_loan calls of NProcs workers, attempt by attempt, beside direct
\* add_book / add_borrower calls; a call that raised inside its transaction
\* may leave the store locked until a collection
NextRetry ==
  \/ db.seq.books < RefBooks /\ add_book(Title1, NONE, NULL, NONE, NONE, 1)
  \/ db.seq.borrowers < RefBorrowers /\ add_borrower("u", NONE)
  \/ \E p \in Procs, b \in 1..RefBooks, r \in 1..RefBorrowers : RetryStart(p, b, r)
  \/ \E p \in Procs : RetryAttempt(p)
  \/ \E p \in Procs : RetrySleep(p)
  \/ \E p \in Procs : Finish(p)
  \/ GcCollect

\* every attempt ends (busy_timeout bounds its wait) and every sleep ends
SpecRetry ==
  /\ Init /\ [][NextRetry]_vars
  /\ \A p \in Procs : WF_vars(RetryAttempt(p)) /\ WF_vars(RetrySleep(p))

\* Requests served one after the other: a request starts only when no other
\* worker is inside one
Alone(p) == \A o \in Procs \ {p} : procs[o].pc = "idle"

\* Categories and their books through the app, one request at a time:
\* /categories/add with a name not yet taken, /books/add with a category,
\* /books/delete, /categories/delete
NextCategory ==
  \/ \E p \in Procs, c \in RenameNames :
        /\ \A x \in DOMAIN db.categories : db.categories[x] # c
        /\ Alone(p) /\ AddCategoryRoute(p, c)
  \/ \E p \in Procs, c \in CategoryArgs : Alone(p) /\ AddBookCheck(p, c, NONE, NONE, 1)
  \/ \E p \in Procs : AddBookInsert(p)
  \/ \E p \in Procs, b \in BookArgs : Alone(p) /\ DeleteBookGuard(p, b)
  \/ \E p \in Procs : DeleteBookDelete(p)
  \/ \E p \in Procs, c \in CategoryArgs : Alone(p) /\ DeleteCategoryGuard(p, c)
  \/ \E p \in Procs : DeleteCategoryDelete(p)
  \/ \E p \in Procs : Finish(p)
  \/ Tick

SpecCategory == Init /\ [][NextCategory]_vars

\* ------------------------------------------------------------------ claims

\* C1: after any sequence of committed core operations every book has
\* available = quantity - (number of its loans whose status is 'active').
C1_AvailableIsQuantityMinusActive ==
  \A b \in DOMAIN db.books :
     db.books[b].available = db.books[b].quantity - ActiveLoansOfBook(db, b)

\* C2: add_loan(b, r) called while book b has available <= 0 fails, inserts no
\* loan row and leaves the book's available unchanged.
C2_AddLoanFailsWhenUnavailable ==
  [][\A b \in BookArgs, r \in BorrowerArgs :
       (/\ add_loan(b, r)
        /\ b \in DOMAIN db.books
        /\ db.books[b].available <= 0)
       => (/\ last'.err # "ok"
           /\ db'.loans = db.loans
           /\ db'.books = db.books)]_vars

\* C3: however concurrent /loans/add requests interleave, no book's available
\* drops below 0.
C3_AvailableNeverNegative ==
  \A b \in DOMAIN db.books : db.books[b].available >= 0

\* C4: return_loan on a loan that is already returned is rejected or a no-op:
\* the book's available is not incremented again and the loan's return_date
\* is not overwritten.
C4_SecondReturnChangesNothing ==
  [][\A l \in LoanArgs :
       (/\ l \in DOMAIN db.loans
        /\ db.loans[l].status = "returned"
        /\ return_loan(l))
       => (/\ db'.books = db.books
           /\ db'.loans[l].return_date = db.loans[l].return_date)]_vars

\* C5: every loan's status is 'active' or 'returned'; a loan is created
\* 'active' with a null return_date; a returned loan is never active again
\* (nor removed).
C5_LoanLifecycle ==
  [][/\ \A l \in DOMAIN db'.loans : db'.loans[l].status \in {"active", "returned"}
     /\ \A l \in (DOMAIN db'.loans) \ (DOMAIN db.loans) :
          db'.loans[l].status = "active" /\ db'.loans[l].return_date = NoDate
     /\ \A l \in DOMAIN db.loans :
          db.loans[l].status = "returned"
          => (l \in DOMAIN db'.loans /\ db'.loans[l].status = "returned")]_vars

\* a returned loan on which return_loan has run once more
C5_ReturnedLoanReturnedAgain ==
  \E l \in DOMAIN db.loans :
     /\ db.loans[l].status = "returned"
     /\ last.op = "return_loan" /\ last.a = l /\ last.err = "ok"
     /\ Surplus(db, db.loans[l].book_id) > 0

\* C6: the loan-row change of add_loan / return_loan and the matching change
\* of the book's available reach the committed store in the same step, each
\* never without the other, and a call that fails commits neither.
C6_LoanChangeAtomic ==
  [][/\ \A l \in (DOMAIN db'.loans) \ (DOMAIN db.loans) :
          /\ db'.loans[l].book_id \in DOMAIN db.books
          /\ db'.books[db'.loans[l].book_id].available
               = db.books[db'.loans[l].book_id].available - 1
     /\ \A l \in DOMAIN db.loans :
          (l \in DOMAIN db'.loans /\ db'.loans[l] # db.loans[l])
          => (/\ db'.loans[l].status = "returned"
              /\ db'.books[db.loans[l].book_id].available
                   = db.books[db.loans[l].book_id].available + 1)
     /\ \A b \in (DOMAIN db.books) \cap (DOMAIN db'.books) :
          db'.books[b].available # db.books[b].available
          => (\/ \E l \in (DOMAIN db'.loans) \ (DOMAIN db.loans) : db'.loans[l].book_id = b
              \/ \E p \in Procs :
                   /\ procs[p].pc = "rl_commit" /\ procs[p].seen = b
                   /\ db'.loans[procs[p].a].status = "returned"
                   /\ db'.loans[procs[p].a].return_date = procs[p].b)
     /\ \A p \in Procs :
          (/\ procs'[p].op \in {"add_loan", "return_loan"}
           /\ procs'[p].res = "failed" /\ procs[p].res # "failed")
          => db' = db]_vars

\* a worker's add_loan has inserted its row and not yet committed
C6_InsertNotYetCommitted ==
  \E p \in Procs :
     /\ procs[p].pc = "al_update"
     /\ lock = p
     /\ DOMAIN wdb.loans # DOMAIN db.loans

\* every loan names an existing book and borrower, every book no category or
\* an existing one
RefIntegrity(d) ==
  /\ \A l \in DOMAIN d.loans :
       d.loans[l].book_id \in DOMAIN d.books /\ d.loans[l].borrower_id \in DOMAIN d.borrowers
  /\ \A b \in DOMAIN d.books :
       d.books[b].category_id = NULL \/ d.books[b].category_id \in DOMAIN d.categories

\* C7: under every interleaving of guard checks, deletes and concurrent
\* add_loan / add_book, every loan's book_id and borrower_id and every
\* book's non-null category_id name existing rows, and add_loan naming a
\* missing book or borrower persists nothing.
C7_ReferencesResolve ==
  [][/\ RefIntegrity(db')
     /\ \A p \in Procs :
          (/\ procs[p].pc = "al_insert" /\ procs'[p].pc = "done"
           /\ (procs[p].a \notin DOMAIN db.books \/ procs[p].b \notin DOMAIN db.borrowers))
          => (db' = db /\ procs'[p].res = "failed")]_vars

\* add_loan failed on a book that was there when the route read it and was
\* deleted before the insert
C7_LoanOnDeletedBookFailed ==
  \E p \in Procs :
     /\ procs[p].op = "add_loan" /\ procs[p].pc = "done" /\ procs[p].res = "failed"
     /\ procs[p].seen > 0
     /\ procs[p].a \notin DOMAIN db.books
     /\ procs[p].b \in DOMAIN db.borrowers
     /\ lock = 0

\* the three deletes a foreign key stands behind: each is rejected and leaves
\* every table as it was
FkDeleteRejected ==
  /\ \A c \in CategoryArgs :
       (/\ \E b \in DOMAIN db.books : db.books[b].category_id = c
        /\ delete_category(c))
       => (last'.err # "ok" /\ c \in DOMAIN db'.categories /\ db' = db)
  /\ \A b \in BookArgs :
       (/\ \E l \in DOMAIN db.loans : db.loans[l].book_id = b
        /\ delete_book(b))
       => (last'.err # "ok" /\ b \in DOMAIN db'.books /\ db' = db)
  /\ \A r \in BorrowerArgs :
       (/\ \E l \in DOMAIN db.loans : db.loans[l].borrower_id = r
        /\ delete_borrower(r))
       => (last'.err # "ok" /\ r \in DOMAIN db'.borrowers /\ db' = db)

\* a book carries the name of author / publisher row a
AuthorNamed(a) ==
  a \in DOMAIN db.authors /\ \E b \in DOMAIN db.books : db.books[b].author_name = db.authors[a]

PublisherNamed(a) ==
  a \in DOMAIN db.publishers
  /\ \E b \in DOMAIN db.books : db.books[b].publisher_name = db.publishers[a]

C9_DeleteOnlyAfterCleanGuard ==
  [][\A p \in Procs :
       LET was == procs[p]
           is  == procs'[p]
       IN /\ (was.pc = "idle" /\ is.op = "delete_book" /\ is.pc # "idle")
             => (/\ is.seen = get_loans_count_for_book(db, is.a)
                 /\ (is.pc = "db_delete") = (is.seen = 0)
                 /\ (is.pc = "done" /\ is.res = "refused") = (is.seen > 0)
                 /\ db' = db)
          /\ (was.pc = "idle" /\ is.op = "delete_borrower" /\ is.pc # "idle")
             => (/\ is.seen = get_active_loans_count_for_borrower(db, is.a)
                 /\ (is.pc = "dr_total") = (is.seen = 0)
                 /\ (is.pc = "done" /\ is.res = "refused") = (is.seen > 0)
                 /\ db' = db)
          /\ (was.pc = "dr_total" /\ is.pc # "dr_total")
             => (/\ is.seen = get_loans_count_for_borrower(db, is.a)
                 /\ (is.pc = "dr_delete") = (is.seen = 0)
                 /\ (is.pc = "done" /\ is.res = "refused") = (is.seen > 0)
                 /\ db' = db)
          /\ (was.pc = "idle" /\ is.op = "delete_category" /\ is.pc # "idle")
             => (/\ is.seen = Cardinality(get_all_books(db, cache, <<>>, is.a, now).value)
                 /\ (is.pc = "dc_delete") = (is.seen = 0)
                 /\ (is.pc = "done" /\ is.res = "refused") = (is.seen > 0)
                 /\ db' = db)
          /\ (was.pc = "da_scan" /\ is.pc # "da_scan")
             => (/\ is.seen = Cardinality({row \in get_all_books(db, cache, <<>>, NULL, now).value :
                                             row.author_name = was.name})
                 /\ (is.pc = "da_delete") = (is.seen = 0)
                 /\ (is.pc = "done" /\ is.res = "refused") = (is.seen > 0)
                 /\ db' = db)
          /\ (was.pc = "dp_scan" /\ is.pc # "dp_scan")
             => (/\ is.seen = Cardinality({row \in get_all_books(db, cache, <<>>, NULL, now).value :
                                             row.publisher_name = was.name})
                 /\ (is.pc = "dp_delete") = (is.seen = 0)
                 /\ (is.pc = "done" /\ is.res = "refused") = (is.seen > 0)
                 /\ db' = db)
          /\ (is.pc \in {"db_delete", "dr_delete", "dc_delete", "da_delete", "dp_delete"})
             => is.seen = 0
          /\ (db' # db /\ is.op \in {"delete_book", "delete_borrower", "delete_category",
                                     "delete_author", "delete_publisher"}
                       /\ is.pc = "done" /\ was.pc # "done")
             => (/\ was.pc \in {"db_delete", "dr_delete", "dc_delete", "da_delete", "dp_delete"}
                 /\ was.seen = 0)]_vars

\* the borrower route passed its first guard (no active loan) and was refused
\* by its second: the borrower's only loans are returned ones
C9_BorrowerWithHistoryRefused ==
  \E p \in Procs :
     /\ procs[p].op = "delete_borrower" /\ procs[p].pc = "done"
     /\ procs[p].res = "refused"
     /\ procs[p].seen > 0
     /\ procs[p].a \in DOMAIN db.borrowers
     /\ get_active_loans_count_for_borrower(db, procs[p].a) = 0

\* C10: once every loan of a borrower has been returned, delete_borrower for
\* that borrower succeeds and get_borrower_by_id then returns None.
C10_DeleteBorrowerAfterReturns ==
  [][\A r \in BorrowerArgs :
       (/\ r \in DOMAIN db.borrowers
        /\ lock = 0
        /\ get_loans_count_for_borrower(db, r) > 0
        /\ get_active_loans_count_for_borrower(db, r) = 0
        /\ delete_borrower(r))
       => (last'.err = "ok" /\ get_borrower_by_id(db', r) = {})]_vars

\* the loans of store d whose column col holds x and whose status is in sts
LoansWith(d, col, x, sts) ==
  Cardinality({l \in DOMAIN d.loans : d.loans[l][col] = x /\ d.loans[l].status \in sts})

AnyStatus == {"active", "returned"}

GuardReadOps ==
  {"get_loans_count_for_book", "get_loans_count_for_borrower",
   "get_active_loans_count_for_borrower"}

\* C11: get_active_loans_count_for_borrower(r) is the number of r's loans with
\* status 'active': one more after each add_loan for r, one fewer after each
\* return of an active loan of r; get_loans_count_for_borrower and
\* get_loans_count_for_book are the number of loans of any status of the
\* borrower / book; and a guard read changes no state.
C11_GuardReadsCountLoans ==
  [][/\ \A b \in BookArgs, r \in BorrowerArgs :
          (add_loan(b, r) /\ last'.err = "ok")
          => (/\ get_active_loans_count_for_borrower(db', r)
                   = get_active_loans_count_for_borrower(db, r) + 1
              /\ get_loans_count_for_borrower(db', r) = get_loans_count_for_borrower(db, r) + 1
              /\ get_loans_count_for_book(db', b) = get_loans_count_for_book(db, b) + 1)
     /\ \A l \in LoanArgs :
          (/\ return_loan(l) /\ last'.err = "ok"
           /\ l \in DOMAIN db.loans /\ db.loans[l].status = "active")
          => LET r == db.loans[l].borrower_id
                 b == db.loans[l].book_id
             IN /\ get_active_loans_count_for_borrower(db', r)
                     = get_active_loans_count_for_borrower(db, r) - 1
                /\ get_loans_count_for_borrower(db', r) = get_loans_count_for_borrower(db, r)
                /\ get_loans_count_for_book(db', b) = get_loans_count_for_book(db, b)
     /\ (last' # last /\ last'.op \in GuardReadOps)
          => (/\ UNCHANGED <<db, lock, wdb, cache, now, procs>>
              /\ last'.err = "ok"
              /\ last'.op = "get_loans_count_for_book"
                   => last'.ret = LoansWith(db, "book_id", last'.a, AnyStatus)
              /\ last'.op = "get_loans_count_for_borrower"
                   => last'.ret = LoansWith(db, "borrower_id", last'.a, AnyStatus)
              /\ last'.op = "get_active_loans_count_for_borrower"
                   => last'.ret = LoansWith(db, "borrower_id", last'.a, {"active"}))]_vars

\* the active count of a borrower with one active and one returned loan was read
C11_ActiveCountOfMixedHistory ==
  /\ last.op = "get_active_loans_count_for_borrower"
  /\ last.ret = 1
  /\ LoansWith(db, "borrower_id", last.a, AnyStatus) = 2

\* C13: update_book(b, ..., q), called with the store not locked, stores
\* quantity = q and available = q - (active loans of b) and returns that
\* count; with q below the count it still stores both (available negative)
\* and returns the count.
C13_UpdateBookRecomputesAvailable ==
  [][\A b \in BookArgs, q \in 0..MaxQty :
       (/\ update_book(b, Title1, NONE, NULL, NONE, NONE, q)
        /\ b \in DOMAIN db.books
        /\ lock = 0)
       => (/\ last'.err = "ok"
           /\ last'.ret = LoansWith(db, "book_id", b, {"active"})
           /\ db'.books[b].quantity = q
           /\ db'.books[b].available = q - LoansWith(db, "book_id", b, {"active"})
           /\ db'.loans = db.loans)]_vars

\* update_book has stored a quantity below the active loans it returned
C13_QuantityBelowActiveStored ==
  /\ last.op = "update_book" /\ last.err = "ok"
  /\ last.a \in DOMAIN db.books
  /\ last.b < last.ret
  /\ db.books[last.a].quantity = last.b
  /\ db.books[last.a].available < 0

\* C14: an edit_book request whose new quantity is below the book's active
\* loans is reported as a conflict and does not leave the book with an
\* available below 0.
C14_EditBelowActiveKeepsCounts ==
  [][\A b \in BookArgs, q \in 0..MaxQty :
       (/\ edit_book(b, q)
        /\ b \in DOMAIN db.books
        /\ lock = 0
        /\ db.books[b].available >= 0
        /\ q < LoansWith(db, "book_id", b, {"active"}))
       => (/\ last'.err = "conflict"
           /\ db'.books[b].available >= 0)]_vars

\* the books of store d that carry category c
BooksIn(d, c) == {b \in DOMAIN d.books : d.books[b].category_id = c}

\* C12: with add_book, delete_book and delete-category requests served one
\* after the other, a category delete is refused while a book carries the
\* category and succeeds when none does: the request is refused at its guard
\* exactly when a book references the category, and otherwise its delete
\* removes the category.
C12_CategoryDeleteIffUnreferenced ==
  [][\A p \in Procs :
       LET was == procs[p]
           is  == procs'[p]
       IN /\ (was.pc = "idle" /\ is.op = "delete_category" /\ is.pc # "idle")
             => (/\ (is.pc = "done" /\ is.res = "refused") = (BooksIn(db, is.a) # {})
                 /\ (is.pc = "dc_delete") = (BooksIn(db, is.a) = {})
                 /\ db' = db)
          /\ (was.pc = "dc_delete" /\ is.pc # "dc_delete")
             => (/\ BooksIn(db, was.a) = {}
                 /\ is.pc = "done" /\ is.res = "ok"
                 /\ was.a \notin DOMAIN db'.categories
                 /\ db'.books = db.books)]_vars

\* a category was deleted after the books added to it had been deleted
C12_DeletedAfterItsBooks ==
  \E p \in Procs :
     /\ procs[p].op = "delete_category" /\ procs[p].pc = "done" /\ procs[p].res = "ok"
     /\ db.seq.categories > 0
     /\ procs[p].a \notin DOMAIN db.categories
     /\ db.seq.books > 0
     /\ db.books = Empty

\* C15: a call wrapped by retry_db ends after at most 5 attempts: the attempt
\* number never passes 5, a further attempt is made only after a busy failure
\* (and a sleep), the 5th busy failure in a row is raised as it is with
\* nothing written, and every call that was entered returns or raises.
C15_RetryEndsWithinFiveAttempts ==
  /\ [][\A p \in Procs :
          LET was == procs[p]
              is  == procs'[p]
          IN /\ is.attempt <= 5
             /\ (is.pc = "attempt" /\ was.pc # "idle" /\ is # was)
                  => (/\ was.pc = "sleep" /\ was.err = "OperationalError"
                      /\ is.attempt = was.attempt + 1)
             /\ (was.pc = "attempt" /\ is.pc = "sleep")
                  => (lock # 0 /\ was.attempt < 5 /\ db' = db)
             /\ (was.pc = "attempt" /\ was.attempt = 5 /\ lock # 0 /\ is # was)
                  => (/\ is.pc = "done" /\ is.res = "failed"
                      /\ is.err = "OperationalError"
                      /\ is.attempt = 5
                      /\ db' = db)]_vars
  /\ \A p \in Procs : (procs[p].pc \in {"attempt", "sleep"}) ~> (procs[p].pc = "done")

\* a call gave up: its fifth attempt found the store still locked
C15_FifthBusyRaised ==
  \E p \in Procs :
     /\ procs[p].pc = "done" /\ procs[p].res = "failed"
     /\ procs[p].err = "OperationalError"
     /\ procs[p].attempt = 5
     /\ procs[p].delay = 16

\* C16: a failure of the wrapped call that is not busy/locked (here the
\* foreign-key violation of add_loan on a missing book or borrower) is raised
\* as it is by the attempt that met it: no sleep, no further attempt, nothing
\* written; met on the first attempt, the call ends after exactly one.
C16_OtherFailureNotRetried ==
  [][\A p \in Procs :
       LET was == procs[p]
           is  == procs'[p]
       IN /\ (/\ was.pc = "attempt" /\ is # was
               /\ lock = 0
               /\ (was.a \notin DOMAIN db.books \/ was.b \notin DOMAIN db.borrowers))
             => (/\ is.pc = "done" /\ is.res = "failed"
                 /\ is.err = "IntegrityError"
                 /\ is.attempt = was.attempt
                 /\ is.delay = was.delay
                 /\ db' = db)
          /\ (is.pc = "done" /\ was.pc # "done" /\ is.err = "IntegrityError")
             => was.pc = "attempt"
          /\ (was.pc = "sleep" /\ is # was) => was.err = "OperationalError"]_vars

\* add_loan on a missing book raised its IntegrityError after one attempt
C16_IntegrityErrorAfterOneAttempt ==
  \E p \in Procs :
     /\ procs[p].op = "add_loan" /\ procs[p].pc = "done"
     /\ procs[p].err = "IntegrityError"
     /\ procs[p].attempt = 1
     /\ procs[p].delay = INITIAL_DELAY

\* C17: a wrapped add_loan whose first k attempts (1 <= k <= 4) failed busy
\* and whose next attempt succeeds returns that attempt's loan id with no
\* error, and the store holds its effect once: each failed attempt wrote
\* nothing, the successful one added one loan row and took one from available.
C17_RetriedCallTakesEffectOnce ==
  [][\A p \in Procs :
       LET was == procs[p]
           is  == procs'[p]
       IN /\ (was.pc = "attempt" /\ is.pc = "sleep") => db' = db
          /\ (/\ was.pc = "attempt" /\ is # was
               /\ was.attempt \in 2..5
               /\ lock = 0
               /\ was.a \in DOMAIN db.books /\ was.b \in DOMAIN db.borrowers)
             => (/\ is.pc = "done" /\ is.res = "ok" /\ is.err = "ok"
                 /\ is.ret \notin DOMAIN db.loans
                 /\ DOMAIN db'.loans = (DOMAIN db.loans) \cup {is.ret}
                 /\ db'.loans[is.ret].book_id = was.a
                 /\ db'.loans[is.ret].borrower_id = was.b
                 /\ \A l \in DOMAIN db.loans : db'.loans[l] = db.loans[l]
                 /\ db'.books[was.a].available = db.books[was.a].available - 1)]_vars

\* a call succeeded on its fifth attempt, after four busy ones
C17_SucceededOnFifthAttempt ==
  \E p \in Procs :
     /\ procs[p].op = "add_loan" /\ procs[p].pc = "done" /\ procs[p].res = "ok"
     /\ procs[p].attempt = 5
     /\ procs[p].ret \in DOMAIN db.loans

\* key holds an entry of cache c whose age at instant t is at most 5 seconds
FreshAt(c, key, t) == key \in DOMAIN c /\ t - c[key].ts <= 5

\* what a cached read must do with cache c at instant t: return the fresh
\* entry and leave the cache, or return the store's rows and keep them under
\* key with the current time
ReadsThrough(c, key, t, stored, returned, c2) ==
  IF FreshAt(c, key, t)
  THEN returned = c[key].value /\ c2 = c
  ELSE /\ returned = stored
       /\ DOMAIN c2 = (DOMAIN c) \cup {key}
       /\ c2[key] = [value |-> stored, ts |-> t]
       /\ \A k \in (DOMAIN c) \ {key} : c2[k] = c[k]

\* C18: get_all_books and get_all_borrowers return the cached value of their
\* key exactly when an entry of age at most 5 seconds exists (age 5 is fresh);
\* otherwise they return the store's rows and cache them with the current
\* time; an entry older than 5 seconds is never returned.
C18_CachedReadWithinTtl ==
  [][/\ (last'.op = "get_all_books" /\ (last' # last \/ cache' # cache))
          => (/\ ReadsThrough(cache, BooksKey(<<>>, last'.a), now,
                              QueryBooks(db, <<>>, last'.a), last'.rows, cache')
              /\ UNCHANGED <<db, lock, now>>)
     /\ (last'.op = "get_all_borrowers" /\ (last' # last \/ cache' # cache))
          => (/\ ReadsThrough(cache, BorrowersKey, now, QueryBorrowers(db),
                              last'.rows, cache')
              /\ UNCHANGED <<db, lock, now>>)]_vars

\* get_all_books returned an entry of age exactly 5
C18_HitAtAgeFive ==
  /\ last.op = "get_all_books"
  /\ BooksKey(<<>>, last.a) \in DOMAIN cache
  /\ now - cache[BooksKey(<<>>, last.a)].ts = 5
  /\ last.rows = cache[BooksKey(<<>>, last.a)].value
  /\ last.rows # {}

BookWrites == {"add_book", "update_book", "delete_book", "add_loan", "return_loan"}

BorrowerWrites ==
  {"add_borrower", "update_borrower", "delete_borrower", "add_loan", "return_loan"}

\* C19: calls made one at a time: get_all_books right after add_book,
\* update_book, delete_book, add_loan or return_loan has returned, and
\* get_all_borrowers right after add_borrower, update_borrower,
\* delete_borrower, add_loan or return_loan has returned, return the rows of
\* a fresh store query, whatever had been cached.
C19_ReadAfterWriteIsFresh ==
  [][/\ (last.op \in BookWrites /\ last.err = "ok" /\ last'.op = "get_all_books")
          => last'.rows = QueryBooks(db, <<>>, last'.a)
     /\ (last.op \in BorrowerWrites /\ last.err = "ok" /\ last'.op = "get_all_borrowers")
          => last'.rows = QueryBorrowers(db)]_vars

\* get_all_borrowers returned the borrower's returned loan: one loan in all,
\* none active, the rows cached at this instant
C19_BorrowersReadAfterReturn ==
  /\ last.op = "get_all_borrowers"
  /\ \E row \in last.rows : row.total_loans = 1 /\ row.active_loans = 0
  /\ BorrowersKey \in DOMAIN cache
  /\ cache[BorrowersKey] = [value |-> last.rows, ts |-> now]

\* C20: every write that can change a cached result invalidates it,
\* update_category included: get_all_books right after a category was
\* renamed returns the rows of a fresh store query (category_name the new
\* name), not a cached result with the old name.
C20_RenameInvalidatesBooks ==
  [][(last.op = "update_category" /\ last.err = "ok" /\ last'.op = "get_all_books")
       => last'.rows = QueryBooks(db, <<>>, last'.a)]_vars

\* the cache entries of c whose key does not start with any of the prefixes
KeptEntries(c, prefixes) ==
  [k \in {x \in DOMAIN c : \A i \in DOMAIN prefixes : ~StartsWith(x, prefixes[i])} |-> c[k]]

\* C21: a successful add_book, update_book or delete_book removes every cache
\* entry whose key starts with 'books' (every filter, not one key) and leaves
\* the 'borrowers' entries as they were; a successful add_borrower,
\* update_borrower or delete_borrower removes every 'borrowers' entry and
\* leaves the 'books' entries as they were; add_loan and return_loan remove
\* both.
C21_WritesClearTheirPrefix ==
  [][/\ ((\/ \E c \in {NULL} \cup CategoryArgs : add_book(Title1, NONE, c, NONE, NONE, 1)
          \/ \E b \in 1..RefBooks, c \in {NULL} \cup CategoryArgs :
                update_book(b, Title1, NONE, c, NONE, NONE, 1)
          \/ \E b \in 1..RefBooks : delete_book(b)) /\ last'.err = "ok")
          => cache' = KeptEntries(cache, <<BooksPrefix>>)
     /\ ((\/ add_borrower("u", NONE)
          \/ \E r \in 1..RefBorrowers, n \in {"u", "v"} : update_borrower(r, n, NONE)
          \/ \E r \in 1..RefBorrowers : delete_borrower(r)) /\ last'.err = "ok")
          => cache' = KeptEntries(cache, <<BorrowersPrefix>>)
     /\ ((\/ \E b \in 1..RefBooks, r \in 1..RefBorrowers : add_loan(b, r)
          \/ \E l \in 1..RefLoans : return_loan(l)) /\ last'.err = "ok")
          => cache' = KeptEntries(cache, <<BooksPrefix, BorrowersPrefix>>)]_vars

\* update_book has just emptied the 'books' entries of a cache that holds
\* the borrowers list read before it
C21_BookWriteKeptBorrowers ==
  /\ last.op = "update_book" /\ last.err = "ok"
  /\ DOMAIN cache = {BorrowersKey}
  /\ cache[BorrowersKey].value # {}

\* worker p returns from get_all_books in this step
BooksReturn(p) ==
  /\ procs[p].pc # "done"
  /\ procs'[p].pc = "done"
  /\ procs'[p].op = "get_all_books"

\* C28: a get_all_books call that begins when every committed book write has
\* returned (no writer stands between its commit and its cache clear)
\* returns the rows of the store as those writes left it, never a result
\* queried before them.
C28_ReadAfterWriterReturned ==
  [][\A p \in Procs :
       (/\ At(p, "idle")
        /\ BooksReturn(p)
        /\ \A o \in Procs : procs[o].pc # "clear")
       => procs'[p].seen = QueryBooks(db, <<>>, NULL)]_vars

\* C22: every value get_all_books returns from its cache was the store's
\* content at some instant no more than 5 seconds before the return: once
\* the last commit is more than 5 seconds old, a call answered from the
\* cache returns the rows of the store as it is.
C22_ReturnedRowsAtMostFiveSecondsOld ==
  [][\A p \in Procs :
       (/\ At(p, "idle")
        /\ BooksReturn(p)
        /\ last.op # "init"
        /\ last.at + 5 < now)
       => procs'[p].seen = QueryBooks(db, <<>>, NULL)]_vars

\* C23: update_book, delete_book, delete_borrower and return_loan called
\* with an id that matches no row report a failure to the caller (the
\* NotFound outcome) and leave every table unchanged.
C23_MissingIdReported ==
  [][/\ \A b \in BookArgs :
          (/\ b \notin DOMAIN db.books
           /\ \/ \E q \in 0..MaxQty : update_book(b, Title1, NONE, NULL, NONE, NONE, q)
              \/ delete_book(b))
          => (last'.err # "ok" /\ db' = db)
     /\ \A r \in BorrowerArgs :
          (r \notin DOMAIN db.borrowers /\ delete_borrower(r))
          => (last'.err # "ok" /\ db' = db)
     /\ \A l \in LoanArgs :
          (l \notin DOMAIN db.loans /\ return_loan(l))
          => (last'.err # "ok" /\ db' = db)]_vars

\* some row of table tbl other than row self holds value v in column col
HeldByOther(tbl, col, v, self) ==
  \E x \in (DOMAIN tbl) \ {self} : tbl[x][col] = v

\* C24: in every reachable state no two books share a non-null isbn, no two
\* borrowers share a non-null email and no two categories share a name; an
\* add or update that would create such a duplicate fails with an
\* IntegrityError, which is not the busy error retry_db retries, and leaves
\* the store unchanged; an add_book with a null isbn succeeds next to other
\* books with a null isbn.
C24_UniqueColumns ==
  /\ [](/\ \A x \in DOMAIN db.books :
             db.books[x].isbn # NONE => ~HeldByOther(db.books, "isbn", db.books[x].isbn, x)
        /\ \A x \in DOMAIN db.borrowers :
             db.borrowers[x].email # NONE
                => ~HeldByOther(db.borrowers, "email", db.borrowers[x].email, x)
        /\ \A x, y \in DOMAIN db.categories : db.categories[x] = db.categories[y] => x = y)
  /\ [][lock = 0 =>
          /\ \A i \in Isbns \ {NONE} :
               /\ (HeldByOther(db.books, "isbn", i, 0)
                   /\ add_book(Title1, i, NULL, NONE, NONE, 1))
                  => (last'.err = "IntegrityError" /\ ~IsBusy(last'.err) /\ db' = db)
               /\ \A b \in DOMAIN db.books :
                    (HeldByOther(db.books, "isbn", i, b)
                     /\ update_book(b, Title1, i, NULL, NONE, NONE, 1))
                    => (last'.err = "IntegrityError" /\ ~IsBusy(last'.err) /\ db' = db)
          /\ \A e \in Emails \ {NONE} :
               /\ (HeldByOther(db.borrowers, "email", e, 0) /\ add_borrower("u", e))
                  => (last'.err = "IntegrityError" /\ ~IsBusy(last'.err) /\ db' = db)
               /\ \A r \in DOMAIN db.borrowers :
                    (HeldByOther(db.borrowers, "email", e, r) /\ update_borrower(r, "u", e))
                    => (last'.err = "IntegrityError" /\ ~IsBusy(last'.err) /\ db' = db)
          /\ \A n \in RenameNames :
               /\ ((\E x \in DOMAIN db.categories : db.categories[x] = n)
                   /\ last'.op = "add_category" /\ db'.seq = db.seq
                   /\ Called("add_category", 0, 0, add_category_call(db, lock, n), <<>>))
                  => (last'.err = "IntegrityError" /\ ~IsBusy(last'.err) /\ db' = db)
               /\ \A c \in DOMAIN db.categories :
                    ((\E x \in (DOMAIN db.categories) \ {c} : db.categories[x] = n)
                     /\ update_category(c, n))
                    => (last'.err = "IntegrityError" /\ ~IsBusy(last'.err) /\ db' = db)
          /\ add_book(Title1, NONE, NULL, NONE, NONE, 1)
               => (last'.err = "ok" /\ db'.seq.books \in DOMAIN db'.books
                   /\ \A x \in DOMAIN db.books : db'.books[x] = db.books[x])]_vars

\* update_book has just been refused the isbn of the other book, and the
\* two books are still there
C24_DuplicateIsbnRefused ==
  /\ last.op = "update_book" /\ last.err = "IntegrityError"
  /\ Cardinality(DOMAIN db.books) = 2
  /\ \E x \in DOMAIN db.books : db.books[x].isbn # NONE

\* C25: delete_author and delete_publisher, with the store not locked,
\* succeed whether or not a book carries the row's name, remove the named
\* author / publisher row and nothing else: every book row, its author_name
\* and publisher_name included, every other table and the cache stay as they
\* were.
C25_NamedDeleteRemovesOnlyItsRow ==
  [][\A a \in NamedArgs :
       /\ (lock = 0 /\ delete_author(a))
          => (/\ last'.err = "ok"
              /\ db' = [db EXCEPT !.authors = Drop(@, a)]
              /\ cache' = cache)
       /\ (lock = 0 /\ delete_publisher(a))
          => (/\ last'.err = "ok"
              /\ db' = [db EXCEPT !.publishers = Drop(@, a)]
              /\ cache' = cache)]_vars

\* the one author row was deleted and a book still carries an author_name
C25_AuthorGoneBookKeepsName ==
  /\ last.op = "delete_author" /\ last.err = "ok"
  /\ db.seq.authors = 1 /\ db.authors = Empty
  /\ \E b \in DOMAIN db.books : db.books[b].author_name \in PersonNames

\* the names held by the categories table of d
CategoryNamesOf(d) == {d.categories[c] : c \in DOMAIN d.categories}

\* C26: init_db on a store whose tables exist changes nothing;
\* seed_default_categories changes nothing when the categories table holds
\* a row, and on an empty table of an unlocked store it inserts the five
\* default names and nothing else; seeding twice leaves what seeding once
\* leaves.
C26_StartupIsIdempotent ==
  /\ [][/\ (db # NoTables /\ init_db) => db' = db
        /\ (db # NoTables /\ db.categories # Empty /\ seed_default_categories)
              => (last'.err = "ok" /\ db' = db)
        /\ (db # NoTables /\ db.categories = Empty /\ lock = 0 /\ seed_default_categories)
              => (/\ last'.err = "ok"
                  /\ Cardinality(DOMAIN db'.categories) = 5
                  /\ CategoryNamesOf(db') =
                       {"Fiction", "Non-Fiction", "Science", "History", "Biography"}
                  /\ [db' EXCEPT !.categories = Empty, !.seq.categories = 0]
                       = [db EXCEPT !.categories = Empty, !.seq.categories = 0])]_vars
  /\ [](db # NoTables =>
          LET once == seed_default_categories_call(db, 0).db
          IN seed_default_categories_call(once, 0).db = once)

\* seed_default_categories has run on a table that held one category and a
\* book of it: the one category is all the table holds
C26_SeedOnNonEmptyTable ==
  /\ last.op = "seed_default_categories" /\ last.err = "ok"
  /\ Cardinality(DOMAIN db.categories) = 1
  /\ \E b \in DOMAIN db.books : db.books[b].category_id \in DOMAIN db.categories

\* C27: whatever add_loan and return_loan calls run beside it, the book
\* update_book commits satisfies available = quantity - active-loan count:
\* the count it read and its UPDATE act as one unit of work.
C27_UpdateBookCountIsCurrent ==
  [][\A p \in Procs :
       (UpdateBookWrite(p) /\ procs'[p].res = "ok")
       => db'.books[procs[p].a].available
            = db'.books[procs[p].a].quantity - ActiveLoansOfBook(db', procs[p].a)]_vars

\* C29: whatever add_book requests run beside the delete_author /
\* delete_publisher route, the route never deletes the author / publisher
\* row while a book carrying its name exists at the moment the delete
\* commits.
C29_NamedRowNotDeletedUnderBook ==
  [][\A p \in Procs :
       /\ (DeleteAuthorDelete(p) /\ procs[p].a \notin DOMAIN db'.authors)
          => ~\E b \in DOMAIN db.books : db.books[b].author_name = procs[p].name
       /\ (DeletePublisherDelete(p) /\ procs[p].a \notin DOMAIN db'.publishers)
          => ~\E b \in DOMAIN db.books : db.books[b].publisher_name = procs[p].name]_vars

\* C30: a result get_all_books returns was produced by the same (search,
\* category_filter) pair, arguments holding ':' included: every row returned
\* to a call matches that call's own search and category_filter.
C30_RowsMatchOwnArguments ==
  [][\A s \in Searches, c \in Filters :
       books_route(s, c)
       => \A row \in last'.rows :
            /\ Contains(row.title, s)
            /\ (c = <<>> \/ (row.category_id # NULL /\ Str(row.category_id) = c))]_vars

\* C31: the wait that follows failed attempt k of a wrapped call (the wait
\* before retry k, k = 1..4) lasts initial_delay * 2^(k-1), that is 1, 2, 4
\* and 8 units of 50 ms; a call waits at most 4 times, and its fifth attempt
\* is never followed by a wait.
C31_WaitDoublesFourTimes ==
  /\ [](\A p \in Procs :
          procs[p].pc = "sleep"
          => (/\ procs[p].attempt \in 1..4
              /\ procs[p].delay = INITIAL_DELAY * 2^(procs[p].attempt - 1)))
  /\ [][\A p \in Procs :
          /\ (procs[p].pc = "attempt" /\ procs[p].attempt = 5) => procs'[p].pc # "sleep"
          /\ (procs[p].pc = "sleep" /\ procs'[p].pc # "sleep")
                => (procs'[p].pc = "attempt" /\ procs'[p].attempt = procs[p].attempt + 1)]_vars

\* a call waits for the fourth time, 8 units (400 ms)
C31_FourthWaitOfEightUnits ==
  \E p \in Procs :
     procs[p].pc = "sleep" /\ procs[p].attempt = 4 /\ procs[p].delay = 8

\* C32: no core operation removes or re-targets a loan: in every step the
\* loans that exist stay, and each keeps its book_id and borrower_id.
C32_LoansKeptAndNeverRetargeted ==
  [][\A l \in DOMAIN db.loans :
       /\ l \in DOMAIN db'.loans
       /\ db'.loans[l].book_id = db.loans[l].book_id
       /\ db'.loans[l].borrower_id = db.loans[l].borrower_id]_vars

\* delete_book was called on a book with a returned loan, after a second
\* loan was made: both loans are there
C32_LoansSurviveDeleteBook ==
  /\ last.op = "delete_book" /\ last.err # "ok"
  /\ Cardinality(DOMAIN db.loans) = 2
  /\ \E l \in DOMAIN db.loans :
        db.loans[l].book_id = last.a /\ db.loans[l].status = "returned"

OtherTablesKept ==
  /\ db'.borrowers = db.borrowers
  /\ db'.categories = db.categories
  /\ db'.authors = db.authors
  /\ db'.publishers = db.publishers

\* the books table after one book's available moved by delta, all else as it was
OnlyAvailableMoved(b, delta) ==
  db'.books = [db.books EXCEPT ![b].available = @ + delta]

\* C34: a successful add_loan(b, r) adds exactly one loan row (book b,
\* borrower r) and lowers available of book b by exactly 1; a successful
\* return_loan(l) rewrites only loan row l and raises available of that loan's
\* book by exactly 1.  Every quantity, every other book's available, every
\* other loan row and all borrower, category, author and publisher rows are
\* unchanged; a call that raises changes no row at all.
C34_LoanCallsTouchOneLoanAndOneAvailable ==
  [][/\ \A b \in BookArgs, r \in BorrowerArgs :
          add_loan(b, r) =>
            IF last'.err = "ok"
            THEN LET id == db'.seq.loans IN
                 /\ id \notin DOMAIN db.loans
                 /\ DOMAIN db'.loans = DOMAIN db.loans \cup {id}
                 /\ db'.loans[id].book_id = b
                 /\ db'.loans[id].borrower_id = r
                 /\ \A x \in DOMAIN db.loans : db'.loans[x] = db.loans[x]
                 /\ OnlyAvailableMoved(b, -1)
                 /\ OtherTablesKept
            ELSE db' = db
     /\ \A l \in LoanArgs :
          return_loan(l) =>
            IF last'.err = "ok"
            THEN /\ DOMAIN db'.loans = DOMAIN db.loans
                 /\ \A x \in DOMAIN db.loans \ {l} : db'.loans[x] = db.loans[x]
                 /\ db'.loans[l].book_id = db.loans[l].book_id
                 /\ db'.loans[l].borrower_id = db.loans[l].borrower_id
                 /\ OnlyAvailableMoved(db.loans[l].book_id, 1)
                 /\ OtherTablesKept
            ELSE db' = db]_vars

\* a return has just succeeded while a second book and a second, still active,
\* loan of that other book exist
C34_ReturnBesideAnotherBooksLoan ==
  /\ last.op = "return_loan"
  /\ last.err = "ok"
  /\ Cardinality(DOMAIN db.books) = 2
  /\ last.a \in DOMAIN db.loans
  /\ \E x \in DOMAIN db.loans :
        /\ db.loans[x].status = "active"
        /\ db.loans[x].book_id # db.loans[last.a].book_id

\* ---- ensure_db_indexes at start-up, on a library.db of an older schema
\* the five CREATE INDEX IF NOT EXISTS statements in the order of the code:
\* the index, its target column, and whether the statement stands inside a
\* try / except sqlite3.OperationalError
IndexStatements ==
  << [name |-> "idx_loans_book_id",        column |-> <<"loans", "book_id">>,        guarded |-> FALSE],
     [name |-> "idx_loans_borrower_id",    column |-> <<"loans", "borrower_id">>,    guarded |-> FALSE],
     [name |-> "idx_books_category_id",    column |-> <<"books", "category_id">>,    guarded |-> FALSE],
     [name |-> "idx_books_author_name",    column |-> <<"books", "author_name">>,    guarded |-> TRUE],
     [name |-> "idx_books_publisher_name", column |-> <<"books", "publisher_name">>, guarded |-> TRUE] >>

IndexedColumns == {IndexStatements[i].column : i \in DOMAIN IndexStatements}

\* the indexes whose target column is among cols
IndexesOn(cols) ==
  {IndexStatements[i].name : i \in {j \in DOMAIN IndexStatements : IndexStatements[j].column \in cols}}

\* CREATE INDEX IF NOT EXISTS name ON table (column): nothing when the index
\* exists, OperationalError (no such column) when the column is absent.  The
\* statement opens no transaction: an index it creates stays created.
SqlCreateIndex(d, s) ==
  IF s.name \in d.indexes THEN Ran(d)
  ELSE IF s.column \notin d.columns THEN Raised("OperationalError", d)
  ELSE Ran([d EXCEPT !.indexes = @ \cup {s.name}])

\* the statements one after the other; an OperationalError is passed over
\* inside a try and leaves the function otherwise
RECURSIVE RunIndexStatements(_, _)
RunIndexStatements(d, stmts) ==
  IF stmts = <<>> THEN Ran(d)
  ELSE LET r == SqlCreateIndex(d, Head(stmts)) IN
       IF r.err # "ok" /\ ~Head(stmts).guarded THEN r
       ELSE RunIndexStatements(r.db, Tail(stmts))

ensure_db_indexes_call(d) == RunIndexStatements(d, IndexStatements)

ensure_db_indexes ==
  LET out == ensure_db_indexes_call(db) IN
  /\ db' = out.db
  /\ last' = [op |-> "ensure_db_indexes", a |-> 0, b |-> 0, err |-> out.err, ret |-> 0]
  /\ UNCHANGED <<lock, wdb, cache, now, procs>>

\* app_startup_maintenance: ensure_db_indexes, then _cache_clear(); any
\* exception of the first is logged ('Startup maintenance failed', ret 1) and
\* the start goes on
app_startup_maintenance ==
  LET out == ensure_db_indexes_call(db) IN
  /\ db' = out.db
  /\ cache' = IF out.err = "ok" THEN cache_clear(cache, <<>>) ELSE cache
  /\ last' = [op |-> "app_startup_maintenance", a |-> 0, b |-> 0, err |-> "ok",
              ret |-> IF out.err = "ok" THEN 0 ELSE 1]
  /\ UNCHANGED <<lock, wdb, now, procs>>

\* library.db as an earlier version of the program may have left it: any of
\* the five columns absent, any index present whose column exists
InitIndexes ==
  /\ db \in {[columns |-> cols, indexes |-> idx] :
               cols \in SUBSET IndexedColumns, idx \in SUBSET IndexesOn(IndexedColumns)}
  /\ db.indexes \subseteq IndexesOn(db.columns)
  /\ lock = 0
  /\ wdb = EmptyDb
  /\ cache = Empty
  /\ now = 0
  /\ last = [op |-> "init", a |-> 0, b |-> 0, err |-> "ok", ret |-> 0]
  /\ procs = [p \in Procs |-> Idle]

\* Start-up maintenance, and ensure_db_indexes called on its own
NextIndexes ==
  \/ ensure_db_indexes
  \/ app_startup_maintenance

SpecIndexes == InitIndexes /\ [][NextIndexes]_vars

\* C35: after ensure_db_indexes, alone or inside app_startup_maintenance, on a
\* store where exactly one of the five target columns is absent, no error has
\* left the call and the four indexes on the present columns exist.
C35_OtherFourIndexesCreated ==
  (/\ last.op \in {"ensure_db_indexes", "app_startup_maintenance"}
   /\ Cardinality(IndexedColumns \ db.columns) = 1)
  => /\ last.err = "ok"
     /\ IndexesOn(db.columns) \subseteq db.indexes

=============================================================================
